---- MODULE Spec2Model ----
(***************************************************************************)
(* A model of the route-construction-and-search engine of the VRP          *)
(* repository: vrp_mvp/ga_solver.py (solve_ga, _evaluate_chromosome,        *)
(* _generate_reports, the OSRM segment cache), vrp_mvp/geo.py and           *)
(* vrp_mvp/osrm.py.                                                         *)
(*                                                                         *)
(* Numbers.  Python floats are modelled by integers:                        *)
(*   - a coordinate is an integer count of half micro-degrees, so that      *)
(*     round(x, 6) is a real rounding (Round6) and two distinct             *)
(*     coordinates can be equal after rounding;                             *)
(*   - haversine_km is abstracted by the taxicab distance between two       *)
(*     points (symmetric, zero iff the points are equal): the trigonometry  *)
(*     of geo.py:9-15 has no counterpart in TLA+;                           *)
(*   - travel_time_min(d) = d / 30 * 60 = 2 * d;                            *)
(*   - float("inf") is Inf, a number above every cost the bounds allow.     *)
(* Identifiers.  A depot's id is its position in instance.depots and the   *)
(* factory's id is 0: node identifiers are distinct.                       *)
(* Chromosomes.  _evaluate_chromosome never reads its chromosome            *)
(* (ga_solver.py:30).  SpecGA carries the chromosomes (solve_ga_seeded,     *)
(* breed, next_population); the other specifications model the population   *)
(* by its length (solve_ga_start, reproduce) and leave the chromosomes out.  *)
(***************************************************************************)
EXTENDS Integers, Sequences, FiniteSets, TLC

\* ------------------------------------------------------------------ bounds
MaxDepots == 2
MaxDemand == 3
MaxCap == 3
MaxCount == 2
MaxPop == 2
MaxGen == 2
MaxRuns == 2
MaxSpecs == 2
RouteDepots == 3
Workers == 2
MaxSegments == 4
MaxJobs == 2

\* ------------------------------------------------------- program constants
\* ga_solver.py:156
UNASSIGNED_PAX_PENALTY == 1000
\* ga_solver.py:381, float("inf")
Inf == 100000000
\* ga_solver.py:264
MAX_ITERATIONS == 100

VARIABLES
    \* the Instance (models.py:59-65), fixed for a behaviour
    depots, factory, shift, owned, rented,
    \* its optional tables, and whether Instance(...) has been called and has
    \* returned
    distances_km, times_min, instance_status,
    \* solve_ga (ga_solver.py:364-428)
    pc, runs, use_osrm, pop_size, generations, gen, population_len, ch_idx,
    best_cost, best_sol, returned,
    \* _evaluate_chromosome (ga_solver.py:28-161)
    remaining, vehicles, vpos, capacity_left, used_depots, pickups,
    ordered_depot_indices, current_idx, legs, total_dist, routes, total_cost,
    \* the module-level cache (ga_solver.py:13)
    osrm_cache,
    \* history: external calls per key and first pair requested per key in
    \* the current run, cost of every evaluation of the current run, the
    \* evaluation that produced best_sol, what the last segment request did
    osrm_calls, first_req, evals, best_at, last_seg,
    \* the chromosomes: population and new_pop of solve_ga (377, 407-413), and
    \* as history the last call of _crossover and _mutate with its arguments,
    \* its draws and its result
    population, new_pop, bred,
    \* _seed_population (ga_solver.py:240-343): the chromosomes built so far,
    \* the locals of the packing loop, and as history what the last packing
    \* iteration read and did
    chromos, assignments, remaining_demand, iteration, seed_step,
    \* osrm_segment (ga_solver.py:52-68) called from evaluations that
    \* interleave: the position and the locals of each worker's call, and as
    \* history every (key, value) stored in the cache during the run
    segment_calls, written,
    \* the service layer (src/backend): which application runs and whether
    \* its solver imports succeeded, the jobs by id, and the position of each
    \* job's background task
    service, VRP_AVAILABLE, active_optimizations, tasks

instVars == <<depots, factory, shift, owned, rented, distances_km, times_min,
              instance_status>>
gaVars == <<pc, runs, use_osrm, pop_size, generations, gen, population_len,
            ch_idx, best_cost, best_sol, returned>>
routeVars == <<capacity_left, used_depots, pickups, ordered_depot_indices,
               current_idx, legs, total_dist>>
evalVars == <<remaining, vehicles, vpos, routes, total_cost>>
cacheVars == <<osrm_cache, osrm_calls, first_req, last_seg>>
histVars == <<evals, best_at>>
popVars == <<population, new_pop, bred>>
seedVars == <<chromos, assignments, remaining_demand, iteration, seed_step>>
raceVars == <<segment_calls, written>>
jobVars == <<service, VRP_AVAILABLE, active_optimizations, tasks>>
vars == <<instVars, gaVars, routeVars, evalVars, cacheVars, histVars, popVars,
          seedVars, raceVars, jobVars>>

\* ----------------------------------------------------------------- helpers
Min(a, b) == IF a <= b THEN a ELSE b
Max(a, b) == IF a >= b THEN a ELSE b
Abs(x) == IF x < 0 THEN -x ELSE x

RECURSIVE SumSeq(_)
SumSeq(s) == IF s = <<>> THEN 0 ELSE Head(s) + SumSeq(Tail(s))

\* the empty dict
EmptyMap == [k \in {} |-> 0]
Put(m, k, v) == [x \in (DOMAIN m) \cup {k} |-> IF x = k THEN v ELSE m[x]]

\* -------------------------------------------------------------- geo.py
\* haversine_km (geo.py:9-15), abstracted: see the header
haversine_km(lat1, lon1, lat2, lon2) == Abs(lat2 - lat1) + Abs(lon2 - lon1)

\* travel_time_min (geo.py:18-21) at the default 30 km/h
travel_time_min(distance_km) == 2 * distance_km

\* round(x, 6) of a coordinate counted in half micro-degrees: the nearest
\* micro-degree, a tie going to the even one (Python's round)
Round6(x) ==
    LET q == x \div 2
    IN  IF x % 2 = 0 THEN q ELSE IF q % 2 = 0 THEN q ELSE q + 1

\* ------------------------------------------------- the vehicle list (42-49)
\* sorted(xs, key=lambda x: x.capacity): Python's sort is stable
RECURSIVE InsertByCapacity(_, _)
InsertByCapacity(x, s) ==
    IF s = <<>> THEN <<x>>
    ELSE IF x.capacity < Head(s).capacity THEN <<x>> \o s
    ELSE <<Head(s)>> \o InsertByCapacity(x, Tail(s))

\* a variant of lines 44 and 47 that takes the specs in the order given
InGivenOrder(s) == s

RECURSIVE SortedByCapacity(_)
SortedByCapacity(s) ==
    IF s = <<>> THEN <<>>
    ELSE InsertByCapacity(s[Len(s)], SortedByCapacity(SubSeq(s, 1, Len(s) - 1)))

RECURSIVE Repeat(_, _)
Repeat(x, n) == IF n <= 0 THEN <<>> ELSE <<x>> \o Repeat(x, n - 1)

OwnedUnit(o) == [type_id |-> o.type_id, capacity |-> o.capacity,
                 cost_per_km |-> o.cost_per_km, owned |-> TRUE]
RentedUnit(r) == [type_id |-> r.type_id, capacity |-> r.capacity,
                  cost_per_km |-> r.cost_per_km, owned |-> FALSE]

\* lines 44-46: every owned spec, by ascending capacity, count times
RECURSIVE ExpandOwned(_)
ExpandOwned(s) ==
    IF s = <<>> THEN <<>>
    ELSE Repeat(OwnedUnit(Head(s)), Head(s).count) \o ExpandOwned(Tail(s))

\* lines 47-49: one unit per rented spec, by ascending capacity
RECURSIVE ExpandRented(_)
ExpandRented(s) ==
    IF s = <<>> THEN <<>>
    ELSE <<RentedUnit(Head(s))>> \o ExpandRented(Tail(s))

BuildVehicles(own, rent) ==
    ExpandOwned(SortedByCapacity(own)) \o ExpandRented(SortedByCapacity(rent))

\* ------------------------------------------------------ the route builder
\* any_demand_left (70-71)
any_demand_left(rem) == \E i \in DOMAIN rem : rem[i] > 0

\* line 84: max(..., key=remaining) over the depots with remaining > 0, the
\* first of the maximal ones in index order; 0 stands for None
StartIdx(rem) ==
    IF ~any_demand_left(rem) THEN 0
    ELSE CHOOSE i \in DOMAIN rem :
            /\ rem[i] > 0
            /\ \A j \in DOMAIN rem : rem[j] <= rem[i]
            /\ \A j \in DOMAIN rem : (j < i) => rem[j] < rem[i]

\* a variant of line 92 that takes all that waits, whatever seats are left
TakeAllWaiting(rem_here, cap_left) == rem_here

\* a variant of line 92 that fills the seats, whatever waits at the depot
TakeAllSeats(rem_here, cap_left) == cap_left

\* line 92
Take(rem_here, cap_left) == Min(rem_here, cap_left)

\* a variant of lines 104-107 in which a vehicle never moves on to a second
\* depot
CandidatesNone(rem, used) == {}

\* line 104
Candidates(rem, used) == {j \in DOMAIN rem : rem[j] > 0 /\ j \notin used}

DepotDist(i, j) ==
    haversine_km(depots[i].lat, depots[i].lon, depots[j].lat, depots[j].lon)

\* a variant of line 108 that moves on to the first candidate in depot order
FirstCandidate(cur, cands) == CHOOSE j \in cands : \A k \in cands : j <= k

\* line 108: min(candidates, key=distance from the current depot), the first
\* of the nearest ones in index order
NearestIdx(cur, cands) ==
    CHOOSE j \in cands :
        /\ \A k \in cands : DepotDist(cur, j) <= DepotDist(cur, k)
        /\ \A k \in cands : (k < j) => DepotDist(cur, j) < DepotDist(cur, k)


\* ---------------------------------------------------------- solutions
\* None
NoSolution == [none |-> TRUE]

\* Solution(routes=..., total_cost=...) (models.py:118-123): the other fields
\* take their defaults
Solution(rs, cost, at) ==
    [routes |-> rs, total_cost |-> cost, reports |-> <<>>,
     depot_leftovers |-> EmptyMap, violations |-> <<>>, eval_no |-> at]

\* the locals of one vehicle's iteration, before lines 78-81 set them
RouteLocalsReset ==
    /\ capacity_left' = 0
    /\ used_depots' = {}
    /\ pickups' = <<>>
    /\ ordered_depot_indices' = <<>>
    /\ current_idx' = 0
    /\ legs' = <<>>
    /\ total_dist' = 0

\* ------------------------------------------------------------ solve_ga
\* lines 364-381: clear the cache when external routing is on, seed
\* pop_size chromosomes, best_sol = None, best_cost = inf
solve_ga_start(pops, gens, osrms, maxRuns) ==
    /\ instance_status = "built"
    /\ pc \in {"idle", "done"}
    /\ runs < maxRuns
    /\ \E p \in pops, g \in gens, o \in osrms :
        /\ pop_size' = p
        /\ generations' = g
        /\ use_osrm' = o
        /\ population_len' = p
        /\ osrm_cache' = IF o THEN EmptyMap ELSE osrm_cache
    /\ runs' = runs + 1
    /\ best_sol' = NoSolution
    /\ best_cost' = Inf
    /\ returned' = NoSolution
    /\ gen' = 0
    /\ ch_idx' = 0
    /\ pc' = "gen"
    /\ osrm_calls' = EmptyMap
    /\ first_req' = EmptyMap
    /\ last_seg' = [kind |-> "none", key |-> <<>>]
    /\ evals' = <<>>
    /\ best_at' = 0
    /\ UNCHANGED <<instVars, jobVars, seedVars, raceVars, popVars, routeVars,
                   evalVars>>

\* a variant of lines 380-388 in which the best pair is initialised inside the
\* generation loop, so that it tracks the best of the current generation
begin_generation_fresh_best ==
    /\ pc = "gen"
    /\ IF gen < generations
       THEN /\ ch_idx' = 1
            /\ pc' = "evaluate"
            /\ best_cost' = Inf
            /\ best_sol' = NoSolution
       ELSE /\ ch_idx' = ch_idx
            /\ pc' = "report"
            /\ UNCHANGED <<best_cost, best_sol>>
    /\ UNCHANGED <<instVars, jobVars, seedVars, raceVars, popVars, runs,
                   use_osrm, pop_size, generations, gen,
                   population_len, returned, routeVars, evalVars, cacheVars,
                   histVars>>

\* lines 383-388: the top of `for gen in range(generations)`
begin_generation ==
    /\ pc = "gen"
    /\ IF gen < generations
       THEN /\ ch_idx' = 1
            /\ pc' = "evaluate"
       ELSE /\ ch_idx' = ch_idx
            /\ pc' = "report"
    /\ UNCHANGED <<instVars, jobVars, seedVars, raceVars, popVars, runs,
                   use_osrm, pop_size, generations, gen,
                   population_len, best_cost, best_sol, returned, routeVars,
                   evalVars, cacheVars, histVars>>

\* a variant of lines 38-40 that starts from what the chromosome assigns to
\* each depot, at most the raw demand
evaluate_begin_from_chromosome ==
    /\ pc = "evaluate"
    /\ IF ch_idx <= population_len
       THEN /\ remaining' =
                [i \in DOMAIN depots |->
                    LET ch == population[ch_idx]
                        mine(g) == g[1] = i
                        own == SelectSeq(ch, mine)
                    IN  Min(depots[i].demand,
                            SumSeq([k \in DOMAIN own |-> own[k][2]]))]
            /\ vehicles' = BuildVehicles(owned, rented)
            /\ routes' = <<>>
            /\ total_cost' = 0
            /\ vpos' = 1
            /\ pc' = "vehicle"
       ELSE /\ UNCHANGED evalVars
            /\ pc' = "reproduce"
    /\ UNCHANGED <<instVars, jobVars, seedVars, raceVars, popVars, runs,
                   use_osrm, pop_size, generations, gen,
                   population_len, ch_idx, best_cost, best_sol, returned,
                   routeVars, cacheVars, histVars>>

\* lines 389-391 and 28-49: the next chromosome of the population enters
\* _evaluate_chromosome, or the evaluation loop ends
evaluate_begin ==
    /\ pc = "evaluate"
    /\ IF ch_idx <= population_len
       THEN /\ remaining' = [i \in DOMAIN depots |-> depots[i].demand]
            /\ vehicles' = BuildVehicles(owned, rented)
            /\ routes' = <<>>
            /\ total_cost' = 0
            /\ vpos' = 1
            /\ pc' = "vehicle"
       ELSE /\ UNCHANGED evalVars
            /\ pc' = "reproduce"
    /\ UNCHANGED <<instVars, jobVars, seedVars, raceVars, popVars, runs,
                   use_osrm, pop_size, generations, gen,
                   population_len, ch_idx, best_cost, best_sol, returned,
                   routeVars, cacheVars, histVars>>

\* a variant of lines 74-88 in which the pickups list is created once, before
\* the vehicle loop, instead of once per vehicle
for_vehicle_shared_pickups ==
    /\ pc = "vehicle"
    /\ IF vpos > Len(vehicles) \/ ~any_demand_left(remaining)
       THEN /\ pc' = "penalty"
            /\ UNCHANGED routeVars
       ELSE /\ capacity_left' = vehicles[vpos].capacity
            /\ used_depots' = {}
            /\ pickups' = pickups
            /\ ordered_depot_indices' = <<>>
            /\ current_idx' = StartIdx(remaining)
            /\ legs' = <<>>
            /\ total_dist' = 0
            /\ pc' = "while"
    /\ UNCHANGED <<instVars, jobVars, seedVars, raceVars, popVars, runs,
                   use_osrm, pop_size, generations, gen,
                   population_len, ch_idx, best_cost, best_sol, returned,
                   evalVars, cacheVars, histVars>>

\* lines 74-88: the top of the vehicle loop
for_vehicle ==
    /\ pc = "vehicle"
    /\ IF vpos > Len(vehicles) \/ ~any_demand_left(remaining)
       THEN /\ pc' = "penalty"
            /\ UNCHANGED routeVars
       ELSE /\ capacity_left' = vehicles[vpos].capacity
            /\ used_depots' = {}
            /\ pickups' = <<>>
            /\ ordered_depot_indices' = <<>>
            /\ current_idx' = StartIdx(remaining)
            /\ legs' = <<>>
            /\ total_dist' = 0
            /\ pc' = "while"
    /\ UNCHANGED <<instVars, jobVars, seedVars, raceVars, popVars, runs,
                   use_osrm, pop_size, generations, gen,
                   population_len, ch_idx, best_cost, best_sol, returned,
                   evalVars, cacheVars, histVars>>

\* a variant without lines 110-111: a vehicle without pickups goes on to its
\* legs and its route like any other
NoPickupsKept(p) == FALSE

\* line 110: `if not pickups`
NoPickups(p) == p = <<>>

\* lines 89-111: one test of the while condition and, when it holds, one
\* pass through the loop body; on leaving the loop, line 110 drops a vehicle
\* without pickups
while_step ==
    /\ pc = "while"
    /\ LET enters == capacity_left > 0 /\ current_idx # 0
           stops == enters /\ (remaining[current_idx] <= 0
                               \/ current_idx \in used_depots)
           take == Take(remaining[current_idx], capacity_left)
           picks == enters /\ ~stops /\ take > 0
           rem2 == [remaining EXCEPT ![current_idx] = @ - take]
           used2 == used_depots \cup {current_idx}
           cands == Candidates(rem2, used2)
           goes_on == picks /\ capacity_left - take > 0 /\ cands # {}
       IN  /\ IF picks
              THEN /\ pickups' = Append(pickups, <<depots[current_idx].id, take>>)
                   /\ ordered_depot_indices' =
                          Append(ordered_depot_indices, current_idx)
                   /\ used_depots' = used2
                   /\ remaining' = rem2
                   /\ capacity_left' = capacity_left - take
                   /\ current_idx' =
                          IF capacity_left - take <= 0 THEN current_idx
                          ELSE IF cands = {} THEN 0
                          ELSE NearestIdx(current_idx, cands)
              ELSE UNCHANGED <<pickups, ordered_depot_indices, used_depots,
                               remaining, capacity_left, current_idx>>
           /\ IF goes_on
              THEN /\ pc' = "while"
                   /\ vpos' = vpos
              ELSE IF NoPickups(pickups')
              THEN /\ pc' = "vehicle"
                   /\ vpos' = vpos + 1
              ELSE /\ pc' = "legs"
                   /\ vpos' = vpos
    /\ UNCHANGED <<instVars, jobVars, seedVars, raceVars, popVars, runs,
                   use_osrm, pop_size, generations, gen,
                   population_len, ch_idx, best_cost, best_sol, returned,
                   legs, total_dist, vehicles, routes, total_cost, cacheVars,
                   histVars>>


\* ------------------------------------------------- segments (52-68, 122-131)
FactoryPoint == <<factory.lat, factory.lon>>
DepotPoint(i) == <<depots[i].lat, depots[i].lon>>

\* lines 114-117: the depots in visiting order, then the factory
Waypoint(ord, k) == IF k <= Len(ord) THEN DepotPoint(ord[k]) ELSE FactoryPoint
NodeAt(ord, k) == IF k <= Len(ord) THEN depots[ord[k]].id ELSE factory.id

\* line 53
SegKey(a, b) == <<Round6(a[1]), Round6(a[2]), Round6(b[1]), Round6(b[2])>>

\* lines 64-66 and 126-128: the straight-line segment
GeoSegment(a, b) ==
    LET d == haversine_km(a[1], a[2], b[1], b[2])
    IN  [dist |-> d, time |-> travel_time_min(d), path |-> <<a, b>>]

\* osrm_route (osrm.py:8-27) either raises (requests.get fails or times out,
\* raise_for_status, an empty routes array, a malformed body) or returns the
\* server's (distance, duration, geometry)
OsrmFailures == {"network", "timeout", "http_status", "no_routes"}
OsrmReplies == {[dist |-> 20, time |-> 9, path |-> <<<<9, 9>>, <<8, 8>>>>]}

\* a variant of line 62 that catches the errors of the HTTP library only, not
\* the RuntimeError osrm_route raises for an empty routes array
CaughtHttpOnly(kind) == kind \in {"network", "timeout", "http_status"}

\* line 62: `except Exception` catches every failure of osrm_route
Caught(kind) == kind \in OsrmFailures

\* a variant of line 67 that rebinds the cache to a new dict holding the new
\* entry only
StoreReplyAlone(cache, key, seg) == Put(EmptyMap, key, seg)
\* line 67, reached after a reply and after a fallback
StoreReply(cache, key, seg) == Put(cache, key, seg)
\* a variant in which line 67 sits inside the try block, so that only a reply
\* of the server is stored
StoreFallbackSkipped(cache, key, seg) == cache
StoreFallback(cache, key, seg) == Put(cache, key, seg)

\* lines 129-131, and after the last leg lines 133-149: the route is built
\* and appended, and the vehicle loop goes on
AppendLeg(seg) ==
    LET k == Len(legs) + 1
        leg == [from_node |-> NodeAt(ordered_depot_indices, k),
                to_node |-> NodeAt(ordered_depot_indices, k + 1),
                distance_km |-> seg.dist, time_min |-> seg.time,
                path_coords |-> seg.path]
        v == vehicles[vpos]
        route == [vehicle_type_id |-> v.type_id,
                  owned |-> v.owned,
                  seats |-> v.capacity,
                  passengers |-> SumSeq([i \in DOMAIN pickups |-> pickups[i][2]]),
                  depot_ids |-> [i \in DOMAIN ordered_depot_indices |->
                                    depots[ordered_depot_indices[i]].id],
                  pickups |-> pickups,
                  legs |-> legs',
                  cost |-> total_dist' * v.cost_per_km]
    IN  /\ legs' = Append(legs, leg)
        /\ total_dist' = total_dist + seg.dist
        /\ IF k < Len(ordered_depot_indices)
           THEN /\ pc' = "legs"
                /\ UNCHANGED <<routes, total_cost, vpos>>
           ELSE /\ routes' = Append(routes, route)
                /\ total_cost' = total_cost + route.cost
                /\ vpos' = vpos + 1
                /\ pc' = "vehicle"
        /\ UNCHANGED <<instVars, jobVars, seedVars, raceVars, popVars, runs,
                       use_osrm, pop_size, generations, gen,
                       population_len, ch_idx, best_cost, best_sol, returned,
                       capacity_left, used_depots, pickups,
                       ordered_depot_indices, current_idx, remaining, vehicles,
                       histVars>>

LegFrom == Waypoint(ordered_depot_indices, Len(legs) + 1)
LegTo == Waypoint(ordered_depot_indices, Len(legs) + 2)

\* lines 125-128: external routing is off
leg_geo ==
    /\ pc = "legs"
    /\ ~use_osrm
    /\ AppendLeg(GeoSegment(LegFrom, LegTo))
    /\ last_seg' = [kind |-> "geo", key |-> <<>>]
    /\ UNCHANGED <<osrm_cache, osrm_calls, first_req>>

\* lines 53-57: the key is in the cache
leg_cache_hit ==
    /\ pc = "legs"
    /\ use_osrm
    /\ SegKey(LegFrom, LegTo) \in DOMAIN osrm_cache
    /\ AppendLeg(osrm_cache[SegKey(LegFrom, LegTo)])
    /\ last_seg' = [kind |-> "hit", key |-> SegKey(LegFrom, LegTo)]
    /\ UNCHANGED <<osrm_cache, osrm_calls, first_req>>

SegRequested(key) ==
    /\ osrm_calls' = Put(osrm_calls, key,
                         IF key \in DOMAIN osrm_calls THEN osrm_calls[key] + 1
                         ELSE 1)
    /\ first_req' = IF key \in DOMAIN first_req THEN first_req
                    ELSE Put(first_req, key, <<LegFrom, LegTo>>)

\* lines 58-61 and 67-68: a miss, and osrm_route returns
leg_osrm_ok ==
    /\ pc = "legs"
    /\ use_osrm
    /\ SegKey(LegFrom, LegTo) \notin DOMAIN osrm_cache
    /\ \E reply \in OsrmReplies :
        /\ AppendLeg(reply)
        /\ osrm_cache' = StoreReply(osrm_cache, SegKey(LegFrom, LegTo), reply)
    /\ SegRequested(SegKey(LegFrom, LegTo))
    /\ last_seg' = [kind |-> "ok", key |-> SegKey(LegFrom, LegTo)]

\* lines 58-60 and 62-68: a miss, and osrm_route raises
leg_osrm_fail ==
    /\ pc = "legs"
    /\ use_osrm
    /\ SegKey(LegFrom, LegTo) \notin DOMAIN osrm_cache
    /\ \E kind \in OsrmFailures :
        IF Caught(kind)
        THEN /\ AppendLeg(GeoSegment(LegFrom, LegTo))
             /\ osrm_cache' = StoreFallback(osrm_cache, SegKey(LegFrom, LegTo),
                                            GeoSegment(LegFrom, LegTo))
        ELSE /\ pc' = "raised"
             /\ UNCHANGED <<instVars, jobVars, seedVars, raceVars, popVars,
                            runs, use_osrm, pop_size, generations,
                            gen, population_len, ch_idx, best_cost, best_sol,
                            returned, routeVars, evalVars, histVars,
                            osrm_cache>>
    /\ SegRequested(SegKey(LegFrom, LegTo))
    /\ last_seg' = [kind |-> "fallback", key |-> SegKey(LegFrom, LegTo)]

\* ------------------------ osrm_segment step by step, for several callers
\* a worker that is not inside osrm_segment; made counts its calls
NoSegmentCall ==
    [pc |-> "out", a |-> <<>>, b |-> <<>>, seg_key |-> <<>>, result |-> <<>>,
     source |-> "none", made |-> 0]

\* the segments an evaluation asks for: from a depot to the factory
SegmentPairs == {<<DepotPoint(i), FactoryPoint>> : i \in DOMAIN depots}

\* the segments the evaluations of the run have asked for so far
SegmentsAsked == SumSeq([w \in 1..Workers |-> segment_calls[w].made])

\* line 53: the call is entered and the key is computed
segment_enter(w) ==
    /\ pc = "racing"
    /\ segment_calls[w].pc = "out"
    /\ SegmentsAsked < MaxSegments
    /\ \E pair \in SegmentPairs :
        segment_calls' =
            [segment_calls EXCEPT
                ![w] = [pc |-> "test", a |-> pair[1], b |-> pair[2],
                        seg_key |-> SegKey(pair[1], pair[2]), result |-> <<>>,
                        source |-> "none", made |-> @.made + 1]]
    /\ UNCHANGED <<instVars, jobVars, seedVars, popVars, gaVars, routeVars,
                   evalVars,
                   cacheVars, histVars, written>>

\* line 54: `if seg_key in _osrm_cache`
segment_test(w) ==
    /\ segment_calls[w].pc = "test"
    /\ segment_calls' =
           [segment_calls EXCEPT
               ![w].pc = IF segment_calls[w].seg_key \in DOMAIN osrm_cache
                         THEN "read" ELSE "request"]
    /\ UNCHANGED <<instVars, jobVars, seedVars, popVars, gaVars, routeVars,
                   evalVars,
                   cacheVars, histVars, written>>

\* lines 55-57: the entry is read and returned
segment_read(w) ==
    /\ segment_calls[w].pc = "read"
    /\ segment_calls' =
           [segment_calls EXCEPT
               ![w].pc = "out",
               ![w].result = osrm_cache[segment_calls[w].seg_key],
               ![w].source = "cache"]
    /\ UNCHANGED <<instVars, jobVars, seedVars, popVars, gaVars, routeVars,
                   evalVars,
                   cacheVars, histVars, written>>

\* lines 58-66: osrm_route returns, or raises and the straight-line segment
\* takes its place
segment_request(w) ==
    /\ segment_calls[w].pc = "request"
    /\ \/ \E reply \in OsrmReplies :
            segment_calls' = [segment_calls EXCEPT ![w].pc = "store",
                                                   ![w].result = reply,
                                                   ![w].source = "ok"]
       \/ \E kind \in OsrmFailures :
            /\ Caught(kind)
            /\ segment_calls' =
                   [segment_calls EXCEPT
                       ![w].pc = "store",
                       ![w].result = GeoSegment(segment_calls[w].a,
                                                segment_calls[w].b),
                       ![w].source = "fallback"]
    /\ osrm_calls' = Put(osrm_calls, segment_calls[w].seg_key,
                         IF segment_calls[w].seg_key \in DOMAIN osrm_calls
                         THEN osrm_calls[segment_calls[w].seg_key] + 1 ELSE 1)
    /\ UNCHANGED <<instVars, jobVars, seedVars, popVars, gaVars, routeVars,
                   evalVars,
                   histVars, osrm_cache, first_req, last_seg, written>>

\* lines 67-68: the result is stored under the key and returned
segment_store(w) ==
    /\ segment_calls[w].pc = "store"
    /\ osrm_cache' =
           IF segment_calls[w].source = "ok"
           THEN StoreReply(osrm_cache, segment_calls[w].seg_key,
                           segment_calls[w].result)
           ELSE StoreFallback(osrm_cache, segment_calls[w].seg_key,
                              segment_calls[w].result)
    /\ written' = written \cup {<<segment_calls[w].seg_key,
                                  segment_calls[w].result>>}
    /\ segment_calls' = [segment_calls EXCEPT ![w].pc = "out"]
    /\ UNCHANGED <<instVars, jobVars, seedVars, popVars, gaVars, routeVars,
                   evalVars,
                   histVars, osrm_calls, first_req, last_seg>>

\* lines 368-369 and 389-391: a run with external routing clears the cache,
\* and its evaluations are handed to the workers
evaluations_start ==
    /\ instance_status = "built"
    /\ pc = "idle"
    /\ pc' = "racing"
    /\ use_osrm' = TRUE
    /\ osrm_cache' = EmptyMap
    /\ osrm_calls' = EmptyMap
    /\ UNCHANGED <<instVars, jobVars, seedVars, raceVars, popVars, runs,
                   pop_size,
                   generations, gen, population_len, ch_idx, best_cost,
                   best_sol, returned, routeVars, evalVars, histVars,
                   first_req, last_seg>>

\* ------------------------------------------- the end of an evaluation
TotalDemand == SumSeq([i \in DOMAIN depots |-> depots[i].demand])
ServedTotal(rs) == SumSeq([i \in DOMAIN rs |-> rs[i].passengers])

\* a variant of lines 154-159 that adds one flat penalty, whatever the number
\* of unserved passengers
PenaltyFlat(rs) ==
    IF ServedTotal(rs) < TotalDemand THEN UNASSIGNED_PAX_PENALTY ELSE 0

\* lines 151-159
Penalty(rs) ==
    IF ServedTotal(rs) < TotalDemand
    THEN (TotalDemand - ServedTotal(rs)) * UNASSIGNED_PAX_PENALTY
    ELSE 0

\* a variant of line 394 that also replaces the best pair on a tie
ImprovesOrTies(cost, best) == cost <= best

\* line 394
Improves(cost, best) == cost < best

\* lines 151-161 and 392-396: the penalty, the Solution, and the update of
\* the best pair; the locals of _evaluate_chromosome go out of scope
evaluate_end ==
    /\ pc = "penalty"
    /\ LET cost == total_cost + Penalty(routes)
           sol == Solution(routes, cost, Len(evals) + 1)
       IN  /\ evals' = Append(evals, cost)
           /\ IF Improves(cost, best_cost)
              THEN /\ best_cost' = cost
                   /\ best_sol' = sol
                   /\ best_at' = Len(evals) + 1
              ELSE UNCHANGED <<best_cost, best_sol, best_at>>
    /\ ch_idx' = ch_idx + 1
    /\ pc' = "evaluate"
    /\ remaining' = EmptyMap
    /\ vehicles' = <<>>
    /\ vpos' = 0
    /\ routes' = <<>>
    /\ total_cost' = 0
    /\ RouteLocalsReset
    /\ UNCHANGED <<instVars, jobVars, seedVars, raceVars, popVars, runs,
                   use_osrm, pop_size, generations, gen,
                   population_len, returned, cacheVars>>

\* lines 400-414: selection and reproduction build a new population of
\* pop_size children, and the generation is over
reproduce ==
    /\ pc = "reproduce"
    /\ population_len' = Max(pop_size, 0)
    /\ gen' = gen + 1
    /\ pc' = "gen"
    /\ UNCHANGED <<instVars, jobVars, seedVars, raceVars, popVars, runs,
                   use_osrm, pop_size, generations, ch_idx,
                   best_cost, best_sol, returned, routeVars, evalVars,
                   cacheVars, histVars>>


\* ------------------------------------------- _generate_reports (164-237)
\* lines 171-172: keyed by depot id, the raw demand of the shift
LeftoversInit ==
    [id \in {depots[i].id : i \in DOMAIN depots} |->
        LET i == CHOOSE j \in DOMAIN depots : depots[j].id = id
        IN  depots[i].demand]

\* lines 193-194
PickupLeftover(left, depot_id, taken) ==
    LET before == IF depot_id \in DOMAIN left THEN left[depot_id] ELSE 0
    IN  Put(left, depot_id, Max(0, before - taken))

\* lines 192-195, for the pickups of one route in order
RECURSIVE ApplyPickups(_, _)
ApplyPickups(left, pks) ==
    IF pks = <<>> THEN left
    ELSE ApplyPickups(PickupLeftover(left, Head(pks)[1], Head(pks)[2]), Tail(pks))

\* line 177 with 192-195, for the routes in order
RECURSIVE Leftovers(_, _)
Leftovers(left, rs) ==
    IF rs = <<>> THEN left
    ELSE Leftovers(ApplyPickups(left, Head(rs).pickups), Tail(rs))

SeqToSet(s) == {s[i] : i \in DOMAIN s}
TotalTime(route) == SumSeq([i \in DOMAIN route.legs |-> route.legs[i].time_min])

\* a variant of line 212 that flags a trip of exactly the maximum ride time
RouteViolationsAtLimit(route) ==
    (IF route.seats - route.passengers < 0 THEN <<"over_capacity">> ELSE <<>>)
    \o (IF TotalTime(route) >= shift.max_ride_minutes
        THEN <<"exceeds_ride_time">> ELSE <<>>)

\* lines 208-213
RouteViolations(route) ==
    (IF route.seats - route.passengers < 0 THEN <<"over_capacity">> ELSE <<>>)
    \o (IF TotalTime(route) > shift.max_ride_minutes
        THEN <<"exceeds_ride_time">> ELSE <<>>)

\* lines 198-206
DepotVisitsDetail(route) ==
    [i \in DOMAIN route.pickups |->
        LET leg == route.legs[Min(i, Len(route.legs))]
        IN  [depot_id |-> route.pickups[i][1],
             passengers |-> route.pickups[i][2],
             time_min |-> leg.time_min,
             cost |-> leg.distance_km * 50]]

\* lines 215-226
Report(idx, route) ==
    [vehicle_id |-> idx,
     vehicle_type |-> route.vehicle_type_id,
     passengers_carried |-> route.passengers,
     empty_seats |-> route.seats - route.passengers,
     total_trip_time_min |-> TotalTime(route),
     total_trip_cost |-> route.cost,
     depot_visits |-> DepotVisitsDetail(route),
     violations |-> RouteViolations(route)]

\* lines 182-183, for the routes in order
DuplicateViolations(rs) ==
    LET Dup(i) == Len(rs[i].depot_ids) # Cardinality(SeqToSet(rs[i].depot_ids))
        hits == SelectSeq([i \in DOMAIN rs |-> i], Dup)
    IN  [n \in DOMAIN hits |->
            [kind |-> "duplicate_depot", vehicle |-> hits[n], depot |-> 0,
             unserved |-> 0]]

\* a variant of lines 229-231 that leaves the loop after the first depot with
\* a positive leftover
UnservedViolationsFirst(left) ==
    LET ids == [i \in DOMAIN depots |-> depots[i].id]
        Pos(i) == left[ids[i]] > 0 /\ \A j \in 1..(i - 1) : left[ids[j]] <= 0
        hits == SelectSeq([i \in DOMAIN depots |-> i], Pos)
    IN  [n \in DOMAIN hits |->
            [kind |-> "unserved", vehicle |-> 0, depot |-> ids[hits[n]],
             unserved |-> left[ids[hits[n]]]]]

\* lines 229-231, in the order of the dict, which is the order of the depots
UnservedViolations(left) ==
    LET ids == [i \in DOMAIN depots |-> depots[i].id]
        Pos(i) == left[ids[i]] > 0 /\ \A j \in 1..(i - 1) : ids[j] # ids[i]
        hits == SelectSeq([i \in DOMAIN depots |-> i], Pos)
    IN  [n \in DOMAIN hits |->
            [kind |-> "unserved", vehicle |-> 0, depot |-> ids[hits[n]],
             unserved |-> left[ids[hits[n]]]]]

\* a variant of lines 168-172 that starts from the leftovers the Solution
\* already carries, when it carries any
StartLeftoversCarried(sol) ==
    IF DOMAIN sol.depot_leftovers # {} THEN sol.depot_leftovers ELSE LeftoversInit

\* lines 168-172: the reporter starts from a dict of its own
StartLeftovers(sol) == LeftoversInit

GenerateReports(sol) ==
    LET left == Leftovers(StartLeftovers(sol), sol.routes)
    IN  [sol EXCEPT
            !.reports = [i \in DOMAIN sol.routes |-> Report(i, sol.routes[i])],
            !.depot_leftovers = left,
            !.violations = DuplicateViolations(sol.routes)
                           \o UnservedViolations(left)]

\* lines 416-428: `assert best_sol is not None`, then the reporter runs on
\* the best Solution, which solve_ga returns
generate_reports ==
    /\ pc = "report"
    /\ IF best_sol = NoSolution
       THEN /\ pc' = "raised"
            /\ UNCHANGED <<best_sol, returned>>
       ELSE /\ best_sol' = GenerateReports(best_sol)
            /\ returned' = best_sol'
            /\ pc' = "done"
    /\ UNCHANGED <<instVars, jobVars, seedVars, raceVars, popVars, runs,
                   use_osrm, pop_size, generations, gen,
                   population_len, ch_idx, best_cost, routeVars, evalVars,
                   cacheVars, histVars>>

\* ------------------------------------------- _seed_population (240-343)
\* a chromosome is its assignments list: pairs <<depot_index, passengers>>

\* lines 250-260: remaining_demand, a dict over the depots with demand > 0
SeedDemand ==
    [i \in {j \in DOMAIN depots : depots[j].demand > 0} |-> depots[i].demand]

\* the keys of a dict over depot indices, in insertion order
RECURSIVE KeysInOrder(_)
KeysInOrder(S) ==
    IF S = {} THEN <<>>
    ELSE LET m == CHOOSE x \in S : \A y \in S : x <= y
         IN  <<m>> \o KeysInOrder(S \ {m})

\* line 265: any(remaining_demand.values())
AnyValue(rem) == \E i \in DOMAIN rem : rem[i] # 0

\* line 270: min(remaining_demand.values()), zeros included
MinValue(rem) ==
    LET i == CHOOSE k \in DOMAIN rem : \A j \in DOMAIN rem : rem[k] <= rem[j]
    IN  rem[i]

NoVehicle == [none |-> TRUE]

\* the first spec of the list with capacity >= load, or None
RECURSIVE FirstCovering(_, _)
FirstCovering(specs, load) ==
    IF specs = <<>> THEN NoVehicle
    ELSE IF Head(specs).capacity >= load THEN Head(specs)
    ELSE FirstCovering(Tail(specs), load)

\* lines 274-283
BestVehicle(min_demand) ==
    LET o == FirstCovering(SortedByCapacity(owned), min_demand)
    IN  IF o # NoVehicle THEN o
        ELSE IF rented # <<>>
        THEN FirstCovering(SortedByCapacity(rented), min_demand)
        ELSE NoVehicle

\* line 296
FactoryDist(i) ==
    haversine_km(depots[i].lat, depots[i].lon, factory.lat, factory.lon)

\* line 299: list.sort(key=distance) is stable
RECURSIVE InsertByDistance(_, _)
InsertByDistance(i, s) ==
    IF s = <<>> THEN <<i>>
    ELSE IF FactoryDist(i) < FactoryDist(Head(s)) THEN <<i>> \o s
    ELSE <<Head(s)>> \o InsertByDistance(i, Tail(s))

RECURSIVE SortedByDistance(_)
SortedByDistance(s) ==
    IF s = <<>> THEN <<>>
    ELSE InsertByDistance(s[Len(s)], SortedByDistance(SubSeq(s, 1, Len(s) - 1)))

\* lines 292-299: the depots with remaining demand, nearest the factory first
DepotDistances(rem) ==
    SortedByDistance(KeysInOrder({i \in DOMAIN rem : rem[i] > 0}))

\* lines 302-314: fill the vehicle from the depots in this order
RECURSIVE FillVehicle(_, _, _, _, _)
FillVehicle(order, capacity, current_passengers, assigned_depots, rem) ==
    IF order = <<>> THEN [assigned |-> assigned_depots, rem |-> rem]
    ELSE LET i == Head(order)
             demand == rem[i]
             can_take == capacity - current_passengers
         IN  IF current_passengers + demand <= capacity
             THEN FillVehicle(Tail(order), capacity, current_passengers + demand,
                              Append(assigned_depots, <<i, demand>>),
                              [rem EXCEPT ![i] = 0])
             ELSE IF can_take > 0
             THEN [assigned |-> Append(assigned_depots, <<i, can_take>>),
                   rem |-> [rem EXCEPT ![i] = @ - can_take]]
             ELSE [assigned |-> assigned_depots, rem |-> rem]

\* max(specs, key=capacity): the first of the largest
Largest(specs) ==
    LET k == CHOOSE n \in DOMAIN specs :
                 /\ \A j \in DOMAIN specs : specs[j].capacity <= specs[n].capacity
                 /\ \A j \in DOMAIN specs :
                        (j < n) => specs[j].capacity < specs[n].capacity
    IN  specs[k]

\* lines 323-328 and 331-336: the first depot of the dict with demand left
\* gives min(demand, capacity of the largest)
TakeWithLargest(largest, rem) ==
    LET with == {i \in DOMAIN rem : rem[i] > 0}
    IN  IF with = {} THEN [assigned |-> <<>>, rem |-> rem]
        ELSE LET i == CHOOSE k \in with : \A j \in with : k <= j
                 passengers_to_take == Min(rem[i], largest.capacity)
             IN  [assigned |-> <<<<i, passengers_to_take>>>>,
                  rem |-> [rem EXCEPT ![i] = @ - passengers_to_take]]

\* lines 263-338: the packing loop of one chromosome; the result holds the
\* assignments and the number of iterations made
RECURSIVE Pack(_, _, _)
Pack(rem, packed, it) ==
    IF ~(AnyValue(rem) /\ it < MAX_ITERATIONS)
    THEN [assignments |-> packed, iterations |-> it]
    ELSE LET best_vehicle == BestVehicle(MinValue(rem))
             step == IF best_vehicle # NoVehicle
                     THEN FillVehicle(DepotDistances(rem), best_vehicle.capacity,
                                      0, <<>>, rem)
                     ELSE IF owned # <<>>
                     THEN TakeWithLargest(Largest(owned), rem)
                     ELSE TakeWithLargest(Largest(rented), rem)
         IN  IF best_vehicle = NoVehicle /\ owned = <<>> /\ rented = <<>>
             THEN [assignments |-> packed, iterations |-> it + 1]
             ELSE Pack(step.rem, packed \o step.assigned, it + 1)

\* lines 248-338: the assignments of a chromosome before the shuffle
SeedAssignments == Pack(SeedDemand, <<>>, 0).assignments

RemoveAt(s, k) == SubSeq(s, 1, k - 1) \o SubSeq(s, k + 1, Len(s))

\* line 340: random.shuffle leaves the list in any order
RECURSIVE Shuffles(_)
Shuffles(s) ==
    IF s = <<>> THEN {<<>>}
    ELSE UNION { {<<s[k]>> \o t : t \in Shuffles(RemoveAt(s, k))} :
                   k \in {j \in DOMAIN s : \A h \in 1..(j - 1) : s[h] # s[j]} }

\* lines 240-343: pop_size chromosomes, each packed and shuffled on its own
SeedPopulations(p) == [1..p -> Shuffles(SeedAssignments)]

\* ----------------------------------------- _crossover, _mutate (346-361)
\* a variant of line 348 that appends all of b
CrossoverAppendAll(a, b, cut) == SubSeq(a, 1, cut) \o b

\* line 348, for the cut drawn at line 347
Crossover(a, b, cut) ==
    LET head == SubSeq(a, 1, cut)
        NotInHead(g) == \A k \in DOMAIN head : head[k] # g
    IN  head \o SelectSeq(b, NotInHead)

\* a variant of line 360 without the lower clamp
MutatePaxUnclamped(depot_idx, pax, sign) ==
    LET demand == depots[depot_idx].demand
        delta == Max(1, pax \div 10)
    IN  Min(demand, pax + sign * delta)

\* a variant of line 360 without the upper clamp at the depot's demand
MutatePaxUncapped(depot_idx, pax, sign) ==
    LET delta == Max(1, pax \div 10)
    IN  Max(1, pax + sign * delta)

\* lines 358-360, for the sign drawn at line 360
MutatePax(depot_idx, pax, sign) ==
    LET demand == depots[depot_idx].demand
        delta == Max(1, pax \div 10)
    IN  Max(1, Min(demand, pax + sign * delta))

\* lines 354-361: draws[idx] is 0 when random.random() >= rate, and otherwise
\* the sign random.choice gives
Mutate(ch, draws) ==
    [idx \in DOMAIN ch |->
        IF draws[idx] = 0 THEN ch[idx]
        ELSE <<ch[idx][1], MutatePax(ch[idx][1], ch[idx][2], draws[idx])>>]

\* ------------------------------------ _seed_population step by step
\* no packing iteration on record
NoSeedStep ==
    [branch |-> "none", before |-> EmptyMap, min_demand |-> 0,
     best_vehicle |-> NoVehicle, largest |-> NoVehicle, assigned |-> <<>>]

\* line 377: solve_ga calls _seed_population(instance, pop_size)
seed_population_start(pops) ==
    /\ instance_status = "built"
    /\ pc = "idle"
    /\ \E p \in pops : pop_size' = p
    /\ chromos' = <<>>
    /\ pc' = "seed_chromosome"
    /\ UNCHANGED <<instVars, jobVars, raceVars, popVars, runs, use_osrm,
                   generations, gen,
                   population_len, ch_idx, best_cost, best_sol, returned,
                   routeVars, evalVars, cacheVars, histVars, assignments,
                   remaining_demand, iteration, seed_step>>

\* lines 246-264, and 343 when the population is complete
seed_chromosome ==
    /\ pc = "seed_chromosome"
    /\ IF Len(chromos) < pop_size
       THEN /\ assignments' = <<>>
            /\ remaining_demand' = SeedDemand
            /\ iteration' = 0
            /\ pc' = "pack"
       ELSE /\ UNCHANGED <<assignments, remaining_demand, iteration>>
            /\ pc' = "seeded"
    /\ seed_step' = NoSeedStep
    /\ UNCHANGED <<instVars, jobVars, raceVars, popVars, runs, use_osrm,
                   pop_size, generations, gen,
                   population_len, ch_idx, best_cost, best_sol, returned,
                   routeVars, evalVars, cacheVars, histVars, chromos>>

\* a variant of line 265 that allows one iteration more
PackGoesOnThrough(rem, it) == AnyValue(rem) /\ it <= MAX_ITERATIONS

\* line 265
PackGoesOn(rem, it) == AnyValue(rem) /\ it < MAX_ITERATIONS

\* lines 265-338: one test of the loop condition and, when it holds, one
\* packing iteration
pack_iteration ==
    /\ pc = "pack"
    /\ IF PackGoesOn(remaining_demand, iteration)
       THEN LET min_demand == MinValue(remaining_demand)
                best_vehicle == BestVehicle(min_demand)
                branch == IF best_vehicle # NoVehicle THEN "fill"
                          ELSE IF owned # <<>> THEN "largest_owned"
                          ELSE IF rented # <<>> THEN "largest_rented"
                          ELSE "break"
                largest == IF branch = "largest_owned" THEN Largest(owned)
                           ELSE IF branch = "largest_rented" THEN Largest(rented)
                           ELSE NoVehicle
                step == IF branch = "fill"
                        THEN FillVehicle(DepotDistances(remaining_demand),
                                         best_vehicle.capacity, 0, <<>>,
                                         remaining_demand)
                        ELSE IF branch = "break"
                        THEN [assigned |-> <<>>, rem |-> remaining_demand]
                        ELSE TakeWithLargest(largest, remaining_demand)
            IN  /\ iteration' = iteration + 1
                /\ assignments' = assignments \o step.assigned
                /\ remaining_demand' = step.rem
                /\ seed_step' = [branch |-> branch, before |-> remaining_demand,
                                 min_demand |-> min_demand,
                                 best_vehicle |-> best_vehicle,
                                 largest |-> largest, assigned |-> step.assigned]
                /\ pc' = IF branch = "break" THEN "shuffle" ELSE "pack"
       ELSE /\ pc' = "shuffle"
            /\ UNCHANGED <<assignments, remaining_demand, iteration, seed_step>>
    /\ UNCHANGED <<instVars, jobVars, raceVars, popVars, runs, use_osrm,
                   pop_size, generations, gen,
                   population_len, ch_idx, best_cost, best_sol, returned,
                   routeVars, evalVars, cacheVars, histVars, chromos>>

\* lines 340-341: the assignments are shuffled and stored as a chromosome
shuffle_append ==
    /\ pc = "shuffle"
    /\ \E ch \in Shuffles(assignments) : chromos' = Append(chromos, ch)
    /\ pc' = "seed_chromosome"
    /\ UNCHANGED <<instVars, jobVars, raceVars, popVars, runs, use_osrm,
                   pop_size, generations, gen,
                   population_len, ch_idx, best_cost, best_sol, returned,
                   routeVars, evalVars, cacheVars, histVars, assignments,
                   remaining_demand, iteration, seed_step>>

\* ------------------------------------ solve_ga with its chromosomes
\* no call of _crossover or _mutate on record
NoBreeding ==
    [op |-> "none", p1 |-> <<>>, p2 |-> <<>>, cut |-> 0, crossed |-> <<>>,
     draws |-> <<>>, child |-> <<>>]

\* lines 364-381, with the chromosomes _seed_population returns
solve_ga_seeded(pops, gens, maxRuns) ==
    /\ instance_status = "built"
    /\ pc \in {"idle", "done"}
    /\ runs < maxRuns
    /\ \E p \in pops, g \in gens :
        /\ pop_size' = p
        /\ generations' = g
        /\ population' \in SeedPopulations(p)
        /\ population_len' = p
    /\ use_osrm' = FALSE
    /\ new_pop' = <<>>
    /\ runs' = runs + 1
    /\ best_sol' = NoSolution
    /\ best_cost' = Inf
    /\ returned' = NoSolution
    /\ gen' = 0
    /\ ch_idx' = 0
    /\ pc' = "gen"
    /\ osrm_calls' = EmptyMap
    /\ first_req' = EmptyMap
    /\ last_seg' = [kind |-> "none", key |-> <<>>]
    /\ evals' = <<>>
    /\ best_at' = 0
    /\ UNCHANGED <<instVars, jobVars, seedVars, raceVars, routeVars, evalVars,
                   osrm_cache, bred>>

\* scored (388-392): the cost of the i-th chromosome of this generation
ScoredCost(i) == evals[Len(evals) - Len(population) + i]

\* lines 402-405: of a sample of min(3, len(scored)) chromosomes in random
\* order the stable sort by cost puts first any one of the cheapest
TournamentWinners ==
    LET n == Len(population)
        k == Min(3, n)
    IN  {i \in 1..n :
            \E sample \in SUBSET (1..n) :
                /\ Cardinality(sample) = k
                /\ i \in sample
                /\ \A j \in sample : ScoredCost(i) <= ScoredCost(j)}

\* a variant of line 408 that makes one pass more
MoreChildrenThrough(n, p) == n <= p

\* line 408
MoreChildren(n, p) == n < p

\* line 355 and 360: what random.random and random.choice can give for a
\* chromosome
Draws(ch) == [DOMAIN ch -> {-1, 0, 1}]

\* lines 409-411: the children two tournaments, a crossover and a mutation
\* can give
Children ==
    UNION { UNION { {Mutate(Crossover(population[i1], population[i2], cut), d) :
                        d \in Draws(Crossover(population[i1], population[i2], cut))} :
                    cut \in 0..Len(population[i1]) } :
            i1 \in TournamentWinners, i2 \in TournamentWinners }

\* lines 408-412: one pass of the reproduction loop
breed ==
    /\ pc = "reproduce"
    /\ MoreChildren(Len(new_pop), pop_size)
    /\ \E child \in Children : new_pop' = Append(new_pop, child)
    /\ UNCHANGED <<instVars, jobVars, seedVars, raceVars, gaVars, routeVars,
                   evalVars, cacheVars, histVars,
                   population, bred>>

\* _crossover (346-349) called on the two chromosomes on record
crossover_call ==
    /\ bred.op = "none"
    /\ \E cut \in 0..Len(bred.p1) :
        bred' = [bred EXCEPT !.op = "crossover", !.cut = cut,
                             !.crossed = Crossover(bred.p1, bred.p2, cut),
                             !.child = Crossover(bred.p1, bred.p2, cut)]
    /\ UNCHANGED <<instVars, jobVars, seedVars, raceVars, gaVars, routeVars,
                   evalVars, cacheVars, histVars,
                   population, new_pop>>

\* _mutate (352-361) called on the child of the crossover, as at line 411
mutate_call ==
    /\ bred.op = "crossover"
    /\ \E draws \in Draws(bred.crossed) :
        bred' = [bred EXCEPT !.op = "mutate", !.draws = draws,
                             !.child = Mutate(bred.crossed, draws)]
    /\ UNCHANGED <<instVars, jobVars, seedVars, raceVars, gaVars, routeVars,
                   evalVars, cacheVars, histVars,
                   population, new_pop>>

\* a variant of lines 413-414 and 383 that ends the search once all
\* chromosomes of a generation cost the same
next_population_until_converged ==
    /\ pc = "reproduce"
    /\ ~MoreChildren(Len(new_pop), pop_size)
    /\ population' = new_pop
    /\ population_len' = Len(new_pop)
    /\ new_pop' = <<>>
    /\ gen' = IF \A i, j \in DOMAIN population : ScoredCost(i) = ScoredCost(j)
              THEN generations ELSE gen + 1
    /\ pc' = "gen"
    /\ UNCHANGED <<instVars, jobVars, seedVars, raceVars, runs, use_osrm,
                   pop_size, generations, ch_idx,
                   best_cost, best_sol, returned, routeVars, evalVars,
                   cacheVars, histVars, bred>>

\* lines 413-414: the children are the next population, and the generation
\* is over
next_population ==
    /\ pc = "reproduce"
    /\ ~MoreChildren(Len(new_pop), pop_size)
    /\ population' = new_pop
    /\ population_len' = Len(new_pop)
    /\ new_pop' = <<>>
    /\ gen' = gen + 1
    /\ pc' = "gen"
    /\ UNCHANGED <<instVars, jobVars, seedVars, raceVars, runs, use_osrm,
                   pop_size, generations, ch_idx,
                   best_cost, best_sol, returned, routeVars, evalVars,
                   cacheVars, histVars, bred>>

\* ------------------------------------------------------------ instances
Points == {<<0, 0>>, <<1, 0>>, <<4, 2>>}
BuildPoints == {<<0, 0>>, <<4, 2>>}
FactoryPoints == {<<0, 6>>}

DepotsOver(maxN, pts, dems) ==
    UNION { { [i \in 1..k |-> [id |-> i, lat |-> f[i][1][1], lon |-> f[i][1][2],
                               demand |-> f[i][2]]] :
                f \in [1..k -> pts \X dems] } : k \in 0..maxN }

OwnedOver(maxN, caps, costs, counts) ==
    UNION { { [i \in 1..k |-> [type_id |-> i, capacity |-> f[i][1],
                               cost_per_km |-> f[i][2], count |-> f[i][3]]] :
                f \in [1..k -> caps \X costs \X counts] } : k \in 0..maxN }

RentedOver(maxN, caps, costs, fixed) ==
    UNION { { [i \in 1..k |-> [type_id |-> i, capacity |-> f[i][1],
                               cost_per_km |-> f[i][2],
                               fixed_rental_cost |-> f[i][3]]] :
                f \in [1..k -> caps \X costs \X fixed] } : k \in 0..maxN }

\* Optional[Dict[NodeId, Dict[NodeId, float]]] (models.py:64-65): None, or
\* for every row key the set of its column keys; the numbers in the cells are
\* read by no validator
NoTable == [present |-> FALSE, rows |-> EmptyMap]
Table(rows) == [present |-> TRUE, rows |-> rows]

\* Instance(...) has returned, and neither table was given
\* the two applications of src/backend
Services == {"main", "main_integrated"}

BuiltWithoutTables ==
    /\ distances_km = NoTable
    /\ times_min = NoTable
    /\ instance_status = "built"

InitState ==
    /\ factory \in {[id |-> 0, lat |-> p[1], lon |-> p[2]] : p \in FactoryPoints}
    /\ shift = [max_ride_minutes |-> 12]
    /\ pc = "idle"
    /\ runs = 0
    /\ use_osrm = FALSE
    /\ pop_size = 0
    /\ generations = 0
    /\ gen = 0
    /\ population_len = 0
    /\ ch_idx = 0
    /\ best_cost = Inf
    /\ best_sol = NoSolution
    /\ returned = NoSolution
    /\ remaining = EmptyMap
    /\ vehicles = <<>>
    /\ vpos = 0
    /\ capacity_left = 0
    /\ used_depots = {}
    /\ pickups = <<>>
    /\ ordered_depot_indices = <<>>
    /\ current_idx = 0
    /\ legs = <<>>
    /\ total_dist = 0
    /\ routes = <<>>
    /\ total_cost = 0
    /\ osrm_cache = EmptyMap
    /\ osrm_calls = EmptyMap
    /\ first_req = EmptyMap
    /\ last_seg = [kind |-> "none", key |-> <<>>]
    /\ evals = <<>>
    /\ best_at = 0
    /\ population = <<>>
    /\ new_pop = <<>>
    /\ chromos = <<>>
    /\ assignments = <<>>
    /\ remaining_demand = EmptyMap
    /\ iteration = 0
    /\ seed_step = NoSeedStep
    /\ segment_calls = [w \in 1..Workers |-> NoSegmentCall]
    /\ written = {}
    /\ service = "none"
    /\ VRP_AVAILABLE = FALSE
    /\ active_optimizations = EmptyMap
    /\ tasks = EmptyMap

\* -------------------------------------------------- the route builder alone
\* one run of solve_ga with one chromosome, one generation and straight-line
\* segments, over every instance within the bounds
InitBuild ==
    /\ depots \in DepotsOver(MaxDepots, BuildPoints, 0..MaxDemand)
    /\ owned \in OwnedOver(1, 0..MaxCap, {1}, 0..MaxCount)
    /\ rented \in RentedOver(1, 0..MaxCap, {2}, {7})
    /\ BuiltWithoutTables
    /\ bred = NoBreeding
    /\ InitState

NextBuild ==
    \/ solve_ga_start({1}, {1}, {FALSE}, 1)
    \/ begin_generation
    \/ evaluate_begin
    \/ for_vehicle
    \/ while_step
    \/ leg_geo
    \/ evaluate_end
    \/ reproduce
    \/ generate_reports

SpecBuild == InitBuild /\ [][NextBuild]_vars

\* ------------------------------------------------------ the route order
\* the same single run, over up to RouteDepots depots at three places, with
\* one kind of owned vehicle that seats one or more than MaxCap
InitRoute ==
    /\ depots \in DepotsOver(RouteDepots, Points, {1, 2}) \ {<<>>}
    /\ owned \in OwnedOver(1, {1, MaxCap + 1}, {1}, {1, 2}) \ {<<>>}
    /\ rented = <<>>
    /\ BuiltWithoutTables
    /\ bred = NoBreeding
    /\ InitState

SpecRoute == InitRoute /\ [][NextBuild]_vars

\* --------------------------------------------------- the vehicle list alone
\* the same single run, over every fleet within the bounds
InitFleet ==
    /\ depots \in DepotsOver(1, {<<0, 0>>}, {MaxDemand})
    /\ owned \in OwnedOver(MaxSpecs, 0..MaxCap, {1}, {0, MaxCount})
    /\ rented \in RentedOver(MaxSpecs, 0..MaxCap, {2}, {7})
    /\ BuiltWithoutTables
    /\ bred = NoBreeding
    /\ InitState

SpecFleet == InitFleet /\ [][NextBuild]_vars


\* ------------------------------------------------ Instance construction
\* the validator of models.py:67-81, registered for times_min alone: TRUE
\* when it returns v, FALSE when it raises ValueError
ensure_nodes_present(v) ==
    LET node_ids == {depots[i].id : i \in DOMAIN depots} \cup {factory.id}
    IN  IF ~v.present THEN TRUE
        ELSE \A a \in DOMAIN v.rows :
                /\ a \in node_ids
                /\ \A b \in v.rows[a] : b \in node_ids

\* Instance(...) (models.py:59-81): pydantic runs the validators of the
\* fields; distances_km has none
Instance_construct ==
    /\ instance_status = "unbuilt"
    /\ instance_status' = IF ensure_nodes_present(times_min) THEN "built"
                          ELSE "rejected"
    /\ UNCHANGED <<depots, factory, shift, owned, rented, distances_km,
                   times_min, jobVars, seedVars, raceVars, popVars, gaVars, routeVars, evalVars, cacheVars,
                   histVars>>

\* node ids a table may name: the factory, the depot, and an id of no node
TableNodes == {0, 1, 9}
TableColumns == {{}} \cup {{n} : n \in TableNodes}
Tables ==
    {NoTable} \cup
    UNION { {Table(f) : f \in [R -> TableColumns]} : R \in SUBSET TableNodes }

\* one depot and one vehicle, with every pair of tables; the Instance is
\* constructed first, and solve_ga runs once on it
InitInstance ==
    /\ depots \in DepotsOver(1, {<<0, 0>>}, {1}) \ {<<>>}
    /\ owned \in OwnedOver(1, {1}, {1}, {1}) \ {<<>>}
    /\ rented = <<>>
    /\ distances_km \in Tables
    /\ times_min \in Tables
    /\ instance_status = "unbuilt"
    /\ bred = NoBreeding
    /\ InitState

NextInstance ==
    \/ Instance_construct
    \/ NextBuild

SpecInstance == InitInstance /\ [][NextInstance]_vars

\* ------------------------------------------------ the genetic search
\* one run of solve_ga with its chromosomes, straight-line segments, over
\* instances whose vehicles have seats and instances without vehicles
InitGA ==
    /\ depots \in (DepotsOver(1, {<<0, 0>>}, {1, 2})
                   \cup DepotsOver(2, {<<0, 0>>}, {1})) \ {<<>>}
    /\ owned \in OwnedOver(1, {1, 2}, {1}, {1})
    /\ rented = <<>>
    /\ BuiltWithoutTables
    /\ bred = NoBreeding
    /\ InitState

NextGA ==
    \/ solve_ga_seeded(1..MaxPop, {1, 2}, 1)
    \/ begin_generation
    \/ evaluate_begin
    \/ for_vehicle
    \/ while_step
    \/ leg_geo
    \/ evaluate_end
    \/ breed
    \/ next_population
    \/ generate_reports

SpecGA == InitGA /\ [][NextGA]_vars

\* ----------------------------------------------------- the reporter alone
\* a Route (models.py:85-96) as _generate_reports reads it: seats,
\* passengers, the depot sequence, one pickup of 1 per depot visited and one
\* leg per depot with its time
InputRoute(seats, passengers, ids, times) ==
    [vehicle_type_id |-> 1, owned |-> TRUE, seats |-> seats,
     passengers |-> passengers, depot_ids |-> ids,
     pickups |-> [i \in DOMAIN ids |-> <<ids[i], 1>>],
     legs |-> [i \in DOMAIN ids |->
                  [from_node |-> ids[i],
                   to_node |-> IF i < Len(ids) THEN ids[i + 1] ELSE factory.id,
                   distance_km |-> 1, time_min |-> times[i],
                   path_coords |-> <<>>]],
     cost |-> Len(ids)]

\* routes with and without seats to spare, with and without a depot visited
\* twice, and with trip times below, at and above the shift's maximum
InputRoutes ==
    UNION { {InputRoute(seats, passengers, ids, times) :
                 seats \in {1, MaxCap}, passengers \in {1, MaxCap, MaxCap + 1},
                 times \in [DOMAIN ids -> {shift.max_ride_minutes \div 2,
                                           shift.max_ride_minutes \div 2 + 1}]} :
            ids \in {<<1>>, <<2>>, <<1, 2>>, <<1, 1>>} }

InputSolutions ==
    {Solution(rs, 0, 0) : rs \in UNION {[1..n -> InputRoutes] : n \in 1..2}}

\* _generate_reports(solution, instance) called on a Solution
report_call ==
    /\ instance_status = "built"
    /\ pc = "idle"
    /\ best_sol' \in InputSolutions
    /\ pc' = "report"
    /\ UNCHANGED <<instVars, jobVars, seedVars, raceVars, popVars, runs,
                   use_osrm, pop_size,
                   generations, gen, population_len, ch_idx, best_cost,
                   returned, routeVars, evalVars, cacheVars, histVars>>

InitReport ==
    /\ depots \in {d \in DepotsOver(2, {<<0, 0>>}, {2}) : Len(d) = 2}
    /\ owned \in OwnedOver(1, {MaxCap}, {1}, {1}) \ {<<>>}
    /\ rented = <<>>
    /\ BuiltWithoutTables
    /\ bred = NoBreeding
    /\ InitState

NextReport ==
    \/ report_call
    \/ generate_reports

SpecReport == InitReport /\ [][NextReport]_vars

\* ------------------------------------------------------ the service layer
\* The handlers and the background tasks are coroutines of one event loop: a
\* handler or a task runs without interruption from one await to the next.
notService ==
    UNCHANGED <<instVars, seedVars, raceVars, popVars, gaVars, routeVars,
                evalVars, cacheVars, histVars>>

\* one of the two applications is started; the import of the solver at the
\* top of the module succeeds or fails
app_start ==
    /\ service = "none"
    /\ service' \in Services
    /\ VRP_AVAILABLE' \in BOOLEAN
    /\ UNCHANGED <<active_optimizations, tasks>>
    /\ notService

Job(status, currentGeneration) ==
    [status |-> status, currentGeneration |-> currentGeneration]

\* start_optimization: the job is stored as running and its task is created;
\* ids are taken to be fresh (they are built from the clock)
start_optimization ==
    /\ service \in Services
    /\ \E id \in (1..MaxJobs) \ DOMAIN active_optimizations :
       \E settings \in 0..MaxGen :
          /\ active_optimizations' =
                 Put(active_optimizations, id, Job("running", 0))
          /\ tasks' = Put(tasks, id, [pc |-> "created", generation |-> 0,
                                      generations |-> settings])
    /\ UNCHANGED <<service, VRP_AVAILABLE>>
    /\ notService

\* stop_optimization of both applications: 404 for an unknown id, otherwise
\* the status is set to "stopped" whatever it was. create_task has queued the
\* first step of the job's task before start_optimization returns the id, so
\* that step runs before any later request is handled.
stop_optimization(id) ==
    /\ id \in DOMAIN active_optimizations
    /\ tasks[id].pc # "created"
    /\ active_optimizations' =
           [active_optimizations EXCEPT ![id].status = "stopped"]
    /\ UNCHANGED <<tasks, service, VRP_AVAILABLE>>
    /\ notService

\* the end of both tasks of main_integrated.py (lines 248-354 and 389-391):
\* the status is set to "completed" without a look at what it is; an
\* exception of run_optimization_with_vrp sets it to "failed"
Finish(id, outcome) ==
    /\ active_optimizations' =
           [active_optimizations EXCEPT ![id].status = outcome]
    /\ tasks' = [tasks EXCEPT ![id].pc = "finished"]

\* main_integrated.py: run_optimization_with_vrp, which hands over to
\* run_mock_optimization when the solver is missing. One step runs from the
\* start, or from the return of the sleep, to the next sleep or to the end:
\* the loop ends when the generations are through or the status is "stopped",
\* and the code after the loop runs in the same step.
task_step_integrated(id) ==
    /\ service = "main_integrated"
    /\ id \in DOMAIN tasks
    /\ tasks[id].pc \in {"created", "sleeping"}
    /\ \/ /\ tasks[id].pc = "created"
          /\ VRP_AVAILABLE
          /\ Finish(id, "failed")
       \/ IF \/ tasks[id].generation >= tasks[id].generations
             \/ active_optimizations[id].status = "stopped"
          THEN \E outcome \in IF VRP_AVAILABLE THEN {"completed", "failed"}
                               ELSE {"completed"} :
                  Finish(id, outcome)
          ELSE /\ active_optimizations' =
                      [active_optimizations EXCEPT
                          ![id].currentGeneration = tasks[id].generation + 1]
               /\ tasks' = [tasks EXCEPT ![id].pc = "sleeping",
                                          ![id].generation = @ + 1]
    /\ UNCHANGED <<service, VRP_AVAILABLE>>
    /\ notService

\* main.py: run_optimization has no await, so it runs from start to end in
\* one step; without the solver it raises at once
task_step_main(id) ==
    /\ service = "main"
    /\ id \in DOMAIN tasks
    /\ tasks[id].pc = "created"
    /\ \E outcome \in IF VRP_AVAILABLE THEN {"completed", "failed"}
                        ELSE {"failed"} :
          Finish(id, outcome)
    /\ UNCHANGED <<service, VRP_AVAILABLE>>
    /\ notService

InitJobs ==
    /\ depots = <<>>
    /\ owned = <<>>
    /\ rented = <<>>
    /\ BuiltWithoutTables
    /\ bred = NoBreeding
    /\ InitState

NextJobs ==
    \/ app_start
    \/ start_optimization
    \/ \E id \in 1..MaxJobs :
          \/ stop_optimization(id)
          \/ task_step_integrated(id)
          \/ task_step_main(id)

SpecJobs == InitJobs /\ [][NextJobs]_vars

\* ------------------------------------------- the segment provider shared
\* evaluations of one run on Workers workers, asking for up to MaxSegments
\* segments in all; two of the depots round to the same key
InitRace ==
    /\ depots = [i \in 1..3 |->
                    [id |-> i, lat |-> <<0, 1, 4>>[i], lon |-> <<0, 0, 2>>[i],
                     demand |-> 1]]
    /\ owned \in OwnedOver(1, {MaxCap}, {1}, {1}) \ {<<>>}
    /\ rented = <<>>
    /\ BuiltWithoutTables
    /\ bred = NoBreeding
    /\ InitState

NextRace ==
    \/ evaluations_start
    \/ \E w \in 1..Workers :
          \/ segment_enter(w)
          \/ segment_test(w)
          \/ segment_read(w)
          \/ segment_request(w)
          \/ segment_store(w)

SpecRace == InitRace /\ [][NextRace]_vars

\* ------------------------------------------------------ the seeding alone
\* _seed_population on instances with depots without demand, vehicles
\* without seats, fleets smaller than a depot's demand and no fleet at all;
\* of two depots at most one has a demand above 1
InitSeed ==
    /\ depots \in {d \in DepotsOver(2, BuildPoints, {0, 1, MaxDemand}) :
                      \A i, j \in DOMAIN d :
                          (i # j) => d[i].demand + d[j].demand <= MaxDemand + 1}
    /\ owned \in OwnedOver(1, {0, 1, MaxCap}, {1}, {1})
    /\ rented \in RentedOver(1, {0, MaxCap - 1, MaxCap}, {2}, {7})
    /\ BuiltWithoutTables
    /\ bred = NoBreeding
    /\ InitState

NextSeed ==
    \/ seed_population_start({1, MaxPop})
    \/ seed_chromosome
    \/ pack_iteration
    \/ shuffle_append

SpecSeed == InitSeed /\ [][NextSeed]_vars

\* ------------------------------------------- the genetic operators alone
\* the pairs a chromosome of solve_ga holds when the vehicles have seats: a
\* depot with demand, and between 1 and its demand passengers
LegalPairs ==
    {g \in (DOMAIN depots) \X (1..MaxDemand) : g[2] <= depots[g[1]].demand}

\* the chromosomes of at most n such pairs
ChromosomesOver(n) == UNION {[1..k -> LegalPairs] : k \in 0..n}

\* _crossover and _mutate called on every two chromosomes of at most two pairs
InitOps ==
    /\ depots \in DepotsOver(2, {<<0, 0>>}, {1, MaxDemand}) \ {<<>>}
    /\ owned \in OwnedOver(1, {1}, {1}, {1}) \ {<<>>}
    /\ rented = <<>>
    /\ BuiltWithoutTables
    /\ bred \in {[NoBreeding EXCEPT !.p1 = a, !.p2 = b] :
                    a \in ChromosomesOver(2), b \in ChromosomesOver(2)}
    /\ InitState

NextOps ==
    \/ crossover_call
    \/ mutate_call

SpecOps == InitOps /\ [][NextOps]_vars

\* ----------------------------------------------------- the whole program
\* successive runs of solve_ga in one process (the cache is module state),
\* with and without external routing, over small instances
Init ==
    /\ depots \in DepotsOver(2, Points, {1, MaxDemand})
    /\ owned \in OwnedOver(1, {1, MaxCap}, {1}, {MaxCount})
    /\ rented \in RentedOver(1, {MaxCap}, {2}, {7})
    /\ BuiltWithoutTables
    /\ bred = NoBreeding
    /\ InitState

Next ==
    \/ solve_ga_start(1..MaxPop, 1..MaxGen, BOOLEAN, MaxRuns)
    \/ begin_generation
    \/ evaluate_begin
    \/ for_vehicle
    \/ while_step
    \/ leg_geo
    \/ leg_cache_hit
    \/ leg_osrm_ok
    \/ leg_osrm_fail
    \/ evaluate_end
    \/ reproduce
    \/ generate_reports

Spec == Init /\ [][Next]_vars


\* ================================================================ claims
\* every route there is: under construction, in the best Solution, returned
AllRoutes ==
    SeqToSet(routes)
    \cup (IF best_sol = NoSolution THEN {} ELSE SeqToSet(best_sol.routes))
    \cup (IF returned = NoSolution THEN {} ELSE SeqToSet(returned.routes))

PickupCounts(pks) == [i \in DOMAIN pks |-> pks[i][2]]
PickupDepots(pks) == [i \in DOMAIN pks |-> pks[i][1]]
NoRepeat(s) == \A i, j \in DOMAIN s : (i # j) => s[i] # s[j]

\* what the pickups of a route take at the depot with this id
TakenAt(id, pks) ==
    SumSeq([i \in DOMAIN pks |-> IF pks[i][1] = id THEN pks[i][2] ELSE 0])
\* what the routes take at the depot with this id
PickedAt(id, rs) == SumSeq([r \in DOMAIN rs |-> TakenAt(id, rs[r].pickups)])

\* C1: in every Solution of _evaluate_chromosome, and so in the Solution
\* solve_ga returns, every route's passengers is the sum of the passenger
\* counts of its pickups and is at most its seats.
C1_RouteWithinCapacity ==
    \A r \in AllRoutes :
        /\ r.passengers = SumSeq(PickupCounts(r.pickups))
        /\ r.passengers <= r.seats

\* C1 witness: solve_ga returned a route that filled its seats from two
\* depots and a route with seats to spare.
C1_Witness ==
    /\ pc = "done"
    /\ \E i, j \in DOMAIN returned.routes :
        /\ Len(returned.routes[i].pickups) >= 2
        /\ returned.routes[i].passengers = returned.routes[i].seats
        /\ returned.routes[j].passengers < returned.routes[j].seats

\* C2: in every route, each depot id appears at most once in the pickups and
\* in depot_ids; the same holds of the pickups being collected.
C2_DepotOncePerRoute ==
    /\ NoRepeat(PickupDepots(pickups))
    /\ \A r \in AllRoutes :
        /\ NoRepeat(PickupDepots(r.pickups))
        /\ NoRepeat(r.depot_ids)

\* C2 witness: two vehicles picked up at the same depot, and the second went
\* on to another depot.
C2_Witness ==
    /\ pc = "done"
    /\ \E i, j \in DOMAIN returned.routes :
        /\ i < j
        /\ Len(returned.routes[j].pickups) >= 2
        /\ returned.routes[i].depot_ids[1] = returned.routes[j].depot_ids[1]

\* C3: the remaining demand of a depot is never negative during route
\* construction, and the routes of a Solution never take more at a depot than
\* its demand for the shift.
C3_DemandNeverOverdrawn ==
    /\ \A i \in DOMAIN remaining : remaining[i] >= 0
    /\ \A i \in DOMAIN depots :
        /\ PickedAt(depots[i].id, routes) <= depots[i].demand
        /\ best_sol # NoSolution =>
               PickedAt(depots[i].id, best_sol.routes) <= depots[i].demand
        /\ returned # NoSolution =>
               PickedAt(depots[i].id, returned.routes) <= depots[i].demand

\* C3 witness: construction emptied a depot with two vehicles while another
\* depot still waits.
C3_Witness ==
    /\ pc = "vehicle"
    /\ Len(routes) >= 2
    /\ \E i, j \in DOMAIN depots :
        /\ remaining[i] = 0
        /\ depots[i].demand > 0
        /\ routes[1].depot_ids[1] = depots[i].id
        /\ routes[2].depot_ids[1] = depots[i].id
        /\ remaining[j] > 0

\* C4: in the Solution solve_ga returns, the leftover of every depot is its
\* raw demand minus what all routes take there, never below 0; the reporter
\* computes it from the raw demand, so running it on a Solution that already
\* carries leftovers gives the same leftovers.
C4_LeftoversFromRawDemand ==
    (pc = "done") =>
        /\ DOMAIN returned.depot_leftovers = {depots[i].id : i \in DOMAIN depots}
        /\ \A i \in DOMAIN depots :
            returned.depot_leftovers[depots[i].id] =
                Max(0, depots[i].demand - PickedAt(depots[i].id, returned.routes))
        /\ GenerateReports(returned).depot_leftovers = returned.depot_leftovers

\* C4 witness: solve_ga returned with one depot served in full by two routes
\* and another left with passengers.
C4_Witness ==
    /\ pc = "done"
    /\ Len(returned.routes) >= 2
    /\ \E i, j \in DOMAIN depots :
        /\ depots[i].demand > 0
        /\ returned.depot_leftovers[depots[i].id] = 0
        /\ returned.depot_leftovers[depots[j].id] > 0
        /\ PickedAt(depots[j].id, returned.routes) > 0


RECURSIVE MinOf(_)
MinOf(s) == IF Len(s) = 1 THEN s[1] ELSE Min(Head(s), MinOf(Tail(s)))

\* C5: within a run of solve_ga the tracked best cost never goes up, in a
\* generation or from one generation to the next, and it changes only at the
\* end of an evaluation whose cost is strictly below it, to that cost.
C5_BestCostNonIncreasing ==
    [][(runs' = runs) =>
          /\ best_cost' <= best_cost
          /\ (best_cost' # best_cost) =>
                /\ pc = "penalty"
                /\ evals'[Len(evals')] < best_cost
                /\ best_cost' = evals'[Len(evals')]]_vars

\* C5 witness: in the second generation, after another evaluation, the best
\* cost is the one found by the first evaluation of the run.
C5_Witness ==
    /\ gen >= 1
    /\ pc = "evaluate"
    /\ ch_idx >= 2
    /\ Len(evals) >= 3
    /\ best_cost < Inf
    /\ best_cost = evals[1]

\* C6: the Solution solve_ga returns is the one of the earliest evaluation, of
\* all evaluations of all generations, whose cost is the minimum, and its
\* total_cost is the tracked best cost.
C6_ReturnsBestOfAllGenerations ==
    (pc = "done") =>
        /\ returned.total_cost = MinOf(evals)
        /\ returned.total_cost = best_cost
        /\ evals[returned.eval_no] = MinOf(evals)
        /\ \A n \in 1..(returned.eval_no - 1) : evals[n] > MinOf(evals)

\* C6 witness: a run of two generations returned the Solution of an
\* evaluation of the first generation.
C6_Witness ==
    /\ pc = "done"
    /\ generations >= 2
    /\ Len(evals) = pop_size * generations
    /\ returned.eval_no <= pop_size
    /\ returned.routes # <<>>

\* the segment request that this step answers, if it answers one
SegAnswered == pc = "legs" /\ Len(legs') = Len(legs) + 1
LastLeg(ls) == ls[Len(ls)]
LegSegment(leg) ==
    [dist |-> leg.distance_km, time |-> leg.time_min, path |-> leg.path_coords]

\* C7: in a run with external routing the external call is made at most once
\* per rounded coordinate pair, also when the first call failed; an entry of
\* the cache never changes or disappears during the run, and every segment
\* request returns the entry of its rounded pair.
C7_OneCallPerRoundedPair ==
    [][(runs' = runs /\ use_osrm) =>
          /\ \A k \in DOMAIN osrm_calls' : osrm_calls'[k] <= 1
          /\ \A k \in DOMAIN osrm_cache :
                k \in DOMAIN osrm_cache' /\ osrm_cache'[k] = osrm_cache[k]
          /\ SegAnswered =>
                /\ SegKey(LegFrom, LegTo) \in DOMAIN osrm_cache'
                /\ LegSegment(LastLeg(legs')) = osrm_cache'[SegKey(LegFrom, LegTo)]
                /\ (SegKey(LegFrom, LegTo) \in DOMAIN osrm_cache) =>
                      osrm_calls' = osrm_calls]_vars

\* C7 witness: a request was answered from the cache by a stored fallback, for
\* a pair that differs from the pair of the failed call and equals it after
\* rounding.
C7_Witness ==
    /\ use_osrm
    /\ pc \in {"legs", "vehicle"}
    /\ last_seg.kind = "hit"
    /\ osrm_calls[last_seg.key] = 1
    /\ osrm_cache[last_seg.key] =
           GeoSegment(first_req[last_seg.key][1], first_req[last_seg.key][2])
    /\ LastLeg(legs).path_coords[1] # DepotPoint(LastLeg(legs).from_node)

\* the coordinates of a node id
NodePoint(id) == IF id = factory.id THEN FactoryPoint ELSE DepotPoint(id)

\* every leg there is: under construction and in the routes
AllLegs ==
    SeqToSet(legs) \cup UNION {SeqToSet(r.legs) : r \in AllRoutes}

\* every external call of the run so far failed
AllCallsFailed ==
    /\ use_osrm
    /\ pc # "idle"
    /\ \A k \in DOMAIN osrm_cache : osrm_cache[k] \notin OsrmReplies

\* C8 as stated: if every external call fails, every segment result is the
\* straight-line result of that segment, and no failure leaves the evaluation.
C8_FallbackIsStraightLine ==
    /\ pc # "raised"
    /\ AllCallsFailed =>
          \A leg \in AllLegs :
              LegSegment(leg) =
                  GeoSegment(NodePoint(leg.from_node), NodePoint(leg.to_node))

\* C8 amended: if every external call fails, every segment result is the
\* straight-line result of the first pair requested in the run with the same
\* rounded key, which is the segment's own straight-line result when that
\* pair is the segment's; no failure leaves the evaluation, and the run ends
\* with a Solution.
C8_FallbackOfFirstRequest ==
    /\ pc # "raised"
    /\ (pc = "done") => returned # NoSolution
    /\ AllCallsFailed =>
          \A leg \in AllLegs :
              LET a == NodePoint(leg.from_node)
                  b == NodePoint(leg.to_node)
                  k == SegKey(a, b)
              IN  /\ k \in DOMAIN first_req
                  /\ LegSegment(leg) = GeoSegment(first_req[k][1], first_req[k][2])
                  /\ (first_req[k] = <<a, b>>) => LegSegment(leg) = GeoSegment(a, b)

\* C8 witness: a run in which every external call failed, one of them for an
\* empty routes array or any other failure, has returned a Solution with
\* routes.
C8_Witness ==
    /\ pc = "done"
    /\ AllCallsFailed
    /\ DOMAIN osrm_cache # {}
    /\ Len(returned.routes) >= 2
    /\ Len(evals) >= 2

\* C9: when solve_ga begins, whatever its configuration, the cache holds no
\* entry of an earlier run.
C9_CacheEmptyAtRunStart ==
    (pc = "gen" /\ gen = 0) => DOMAIN osrm_cache = {}


\* the vehicle list is built and in use
VehiclesBuilt == pc \in {"vehicle", "while", "legs", "penalty"}

UnitsOf(spec_id, is_owned) ==
    Cardinality({i \in DOMAIN vehicles :
                    vehicles[i].type_id = spec_id /\ vehicles[i].owned = is_owned})

RouteCosts(rs) == SumSeq([i \in DOMAIN rs |-> rs[i].cost])

\* what the claims expect for passengers left unserved by these routes
ExpectedPenalty(rs) ==
    IF ServedTotal(rs) < TotalDemand
    THEN UNASSIGNED_PAX_PENALTY * (TotalDemand - ServedTotal(rs))
    ELSE 0

\* the fixed rental cost of the spec a route's vehicle was built from: none for
\* an owned vehicle
FixedRentalOf(route) ==
    IF route.owned THEN 0
    ELSE LET k == CHOOSE n \in DOMAIN rented :
                      rented[n].type_id = route.vehicle_type_id
         IN  rented[k].fixed_rental_cost

\* C11: the total cost of the Solution the search produces holds, besides the
\* costs of the routes and the penalty, the fixed rental cost of every rented
\* vehicle used by a route, once, and no fixed cost for owned vehicles or for
\* rented vehicles that carry nobody.
C11_FixedRentalCostCharged ==
    (pc = "done") =>
        returned.total_cost =
            RouteCosts(returned.routes)
            + SumSeq([i \in DOMAIN returned.routes |->
                         FixedRentalOf(returned.routes[i])])
            + ExpectedPenalty(returned.routes)

\* C12: the cost of an evaluation is the sum of the route costs plus 1000 for
\* every passenger of the shift demand not served, and just the sum of the
\* route costs when all are served; the Solution's total_cost is that cost,
\* also in the Solution solve_ga returns.
C12_CostIsRoutesPlusPenalty ==
    [][/\ (pc = "penalty") =>
              /\ evals'[Len(evals')] = RouteCosts(routes) + ExpectedPenalty(routes)
              /\ (ServedTotal(routes) >= TotalDemand) =>
                     evals'[Len(evals')] = RouteCosts(routes)
              /\ (best_sol' # best_sol) =>
                     /\ best_sol'.routes = routes
                     /\ best_sol'.total_cost = evals'[Len(evals')]
       /\ (pc' = "done") =>
              returned'.total_cost =
                  RouteCosts(returned'.routes) + ExpectedPenalty(returned'.routes)
      ]_vars

\* C12 witness: solve_ga returned a Solution with two routes of positive cost
\* that leaves two passengers or more unserved.
C12_Witness ==
    /\ pc = "done"
    /\ Len(returned.routes) >= 2
    /\ \A i \in DOMAIN returned.routes : returned.routes[i].cost > 0
    /\ TotalDemand - ServedTotal(returned.routes) >= 2
    /\ returned.total_cost > 2 * UNASSIGNED_PAX_PENALTY

\* C13: with no owned and no rented spec, solve_ga raises before it seeds or
\* evaluates anything, and returns no Solution.
C13_EmptyFleetRaisesBeforeSearch ==
    (owned = <<>> /\ rented = <<>> /\ pc # "idle") =>
        /\ pc = "raised"
        /\ evals = <<>>
        /\ returned = NoSolution

\* the violations of a Solution that say passengers of this depot are unserved
UnservedNaming(sol, id) ==
    {n \in DOMAIN sol.violations :
        sol.violations[n].kind = "unserved" /\ sol.violations[n].depot = id}

\* C15: a fleet too small for the demand is not fatal: solve_ga never raises
\* and returns a Solution in which every depot not served in full has a
\* positive leftover; the violations name every depot with a positive
\* leftover, once, and no depot with leftover 0.
C15_LeftoversReportedNotFatal ==
    /\ pc # "raised"
    /\ (pc = "done") =>
          /\ returned # NoSolution
          /\ \A i \in DOMAIN depots :
                LET id == depots[i].id
                    left == returned.depot_leftovers[id]
                IN  /\ (PickedAt(id, returned.routes) < depots[i].demand) => left > 0
                    /\ Cardinality(UnservedNaming(returned, id)) =
                           IF left > 0 THEN 1 ELSE 0
                    /\ \A n \in UnservedNaming(returned, id) :
                           returned.violations[n].unserved = left

\* C15 witness: a run of two generations with two chromosomes returned a
\* Solution with routes that leaves passengers at two depots.
C15_Witness ==
    /\ pc = "done"
    /\ pop_size >= 2
    /\ generations >= 2
    /\ returned.routes # <<>>
    /\ Len(depots) >= 2
    /\ \A i \in DOMAIN depots : returned.depot_leftovers[depots[i].id] > 0
    /\ Len(returned.violations) >= 2

\* the table names, as a row key or as a column key, an id that is neither a
\* depot's nor the factory's
RefersToUnknownNode(t) ==
    LET known == {depots[i].id : i \in DOMAIN depots} \cup {factory.id}
    IN  /\ t.present
        /\ \E a \in DOMAIN t.rows : a \notin known \/ t.rows[a] \ known # {}

\* C14: an Instance whose distance table or time table names an unknown node
\* is rejected at construction, and no search begins on it.
C14_UnknownNodeRejected ==
    (/\ instance_status # "unbuilt"
     /\ RefersToUnknownNode(distances_km) \/ RefersToUnknownNode(times_min)) =>
        /\ instance_status = "rejected"
        /\ pc = "idle"

\* the seats of the fleet: every owned spec count times, every rented spec once
FleetSeats ==
    SumSeq([k \in DOMAIN owned |-> owned[k].capacity * owned[k].count])
    + SumSeq([k \in DOMAIN rented |-> rented[k].capacity])

PositiveCapacities ==
    /\ \A k \in DOMAIN owned : owned[k].capacity > 0
    /\ \A k \in DOMAIN rented : rented[k].capacity > 0

\* C16: with positive vehicle capacities, route construction leaves unserved
\* max(0, total demand - total seats of the vehicle list) passengers; when the
\* seats cover the demand every leftover is 0, no penalty is added and no
\* violation is emitted, and one depot with one vehicle that covers it gives
\* one route that carries the depot's whole demand.
C16_UnservedIsDemandBeyondSeats ==
    PositiveCapacities =>
        /\ (pc = "penalty") =>
              /\ FleetSeats = SumSeq([i \in DOMAIN vehicles |-> vehicles[i].capacity])
              /\ TotalDemand - ServedTotal(routes) = Max(0, TotalDemand - FleetSeats)
        /\ (pc = "done" /\ FleetSeats >= TotalDemand) =>
              /\ \A i \in DOMAIN depots :
                    returned.depot_leftovers[depots[i].id] = 0
              /\ returned.violations = <<>>
              /\ returned.total_cost = RouteCosts(returned.routes)
        /\ (/\ pc = "done"
            /\ Len(depots) = 1
            /\ depots[1].demand > 0
            /\ FleetSeats >= depots[1].demand
            /\ Len(owned) = 1 /\ owned[1].count = 1 /\ rented = <<>>) =>
              /\ Len(returned.routes) = 1
              /\ returned.routes[1].passengers = depots[1].demand

\* C16 witness: solve_ga returned a single route that took all that waited at
\* two depots and has a seat to spare.
C16_Witness ==
    /\ pc = "done"
    /\ PositiveCapacities
    /\ Len(returned.routes) = 1
    /\ Len(returned.routes[1].pickups) = 2
    /\ returned.routes[1].passengers = TotalDemand
    /\ returned.routes[1].passengers < returned.routes[1].seats
    /\ returned.violations = <<>>

\* what the pairs before the cut of the first parent are
HeadOf(b) == SubSeq(b.p1, 1, b.cut)
TailOf(b) == SubSeq(b.crossed, b.cut + 1, Len(b.crossed))

\* C19: _mutate keeps the number of pairs and the depot index of every pair,
\* and every pair it mutates has a passenger count of at least 1 and at most
\* the raw demand of its depot.
C19_MutationClampedToDemand ==
    (bred.op = "mutate") =>
        /\ Len(bred.child) = Len(bred.crossed)
        /\ \A idx \in DOMAIN bred.child :
              /\ bred.child[idx][1] = bred.crossed[idx][1]
              /\ (bred.draws[idx] # 0) =>
                     /\ bred.child[idx][2] >= 1
                     /\ bred.child[idx][2] <= depots[bred.child[idx][1]].demand

\* C19 witness: _mutate has lowered one count, held one at 1 against a
\* decrease and held one at its depot's demand against an increase.
C19_Witness ==
    /\ bred.op = "mutate"
    /\ \E i, j, k \in DOMAIN bred.child :
        /\ bred.draws[i] = -1 /\ bred.child[i][2] = bred.crossed[i][2] - 1
        /\ bred.draws[j] = -1 /\ bred.crossed[j][2] = 1 /\ bred.child[j][2] = 1
        /\ bred.draws[k] = 1
        /\ bred.crossed[k][2] = depots[bred.crossed[k][1]].demand
        /\ bred.child[k] = bred.crossed[k]

\* the child grown pair by pair: a pair of b is appended when the child does
\* not hold an equal pair yet
RECURSIVE AppendNew(_, _)
AppendNew(child, b) ==
    IF b = <<>> THEN child
    ELSE AppendNew(IF Head(b) \in SeqToSet(child) THEN child
                   ELSE Append(child, Head(b)),
                   Tail(b))

\* C20 as stated: the child of _crossover is the first cut pairs of a, cut in
\* 0..len(a), followed by the pairs of b in b's order, each appended when the
\* child does not hold an equal pair already; every pair of the child occurs
\* in a or in b.
C20_ChildDeduplicated ==
    (bred.op # "none") =>
        /\ bred.cut \in 0..Len(bred.p1)
        /\ bred.crossed = AppendNew(HeadOf(bred), bred.p2)
        /\ SeqToSet(bred.crossed) \subseteq SeqToSet(bred.p1) \cup SeqToSet(bred.p2)

\* C20 amended: the child of _crossover is the first cut pairs of a, cut in
\* 0..len(a), followed by the pairs of b in b's order that equal none of those
\* first cut pairs of a, a pair that b holds several times being appended
\* every time; every pair of the child occurs in a or in b.
C20_ChildIsHeadThenRestOfB ==
    (bred.op # "none") =>
        /\ bred.cut \in 0..Len(bred.p1)
        /\ Len(bred.crossed) >= bred.cut
        /\ SubSeq(bred.crossed, 1, bred.cut) = HeadOf(bred)
        /\ LET Kept(g) == g \notin SeqToSet(HeadOf(bred))
           IN  TailOf(bred) = SelectSeq(bred.p2, Kept)
        /\ SeqToSet(bred.crossed) \subseteq SeqToSet(bred.p1) \cup SeqToSet(bred.p2)

\* C20 witness: a crossover cut inside a, with one pair of b left out because
\* the head holds it and another appended.
C20_Witness ==
    /\ bred.op = "crossover"
    /\ bred.cut >= 1
    /\ bred.cut < Len(bred.p1)
    /\ Len(bred.p2) = 2
    /\ bred.p2[1] \in SeqToSet(HeadOf(bred))
    /\ bred.p2[2] \notin SeqToSet(bred.p1)
    /\ bred.crossed = Append(HeadOf(bred), bred.p2[2])

\* C17: from the seeding on, before and after the reproduction step of every
\* generation, the population holds exactly pop_size chromosomes; the next
\* population is complete when it replaces it.
C17_PopulationSizeConstant ==
    (pc # "idle") =>
        /\ Len(population) = pop_size
        /\ population_len = pop_size
        /\ Len(new_pop) <= pop_size
        /\ (pc # "reproduce") => new_pop = <<>>

\* C17 witness: the second generation evaluates a population of two children
\* of different lengths.
C17_Witness ==
    /\ pc = "evaluate"
    /\ gen >= 1
    /\ pop_size = 2
    /\ Len(population) = 2
    /\ Len(population[1]) # Len(population[2])

\* how far a run of solve_ga has come, most significant first: generation,
\* part of the generation, evaluations made, part of the evaluation, vehicle,
\* part of the vehicle's route, pickups, legs, children
RunProgress ==
    <<gen,
      CASE pc = "gen" -> 0
        [] pc \in {"evaluate", "vehicle", "while", "legs", "penalty"} -> 1
        [] pc = "reproduce" -> 2
        [] pc = "report" -> 3
        [] OTHER -> 4,
      Len(evals),
      CASE pc = "evaluate" -> 0
        [] pc \in {"vehicle", "while", "legs"} -> 1
        [] OTHER -> 2,
      vpos,
      CASE pc = "vehicle" -> 0
        [] pc = "while" -> 1
        [] OTHER -> 2,
      Len(pickups),
      Len(legs),
      Len(new_pop)>>

\* the run has a step to take: in the reproduction loop two tournaments, a
\* cut and the draws of a mutation exist, elsewhere some action is enabled
CanStep ==
    IF pc = "reproduce" /\ MoreChildren(Len(new_pop), pop_size)
    THEN \E i1 \in TournamentWinners, i2 \in TournamentWinners :
            \E cut \in 0..Len(population[i1]) :
                \E d \in Draws(Crossover(population[i1], population[i2], cut)) :
                    Len(Mutate(Crossover(population[i1], population[i2], cut), d))
                        = Len(Crossover(population[i1], population[i2], cut))
    ELSE ENABLED NextGA

LexLess(a, b) ==
    \E k \in DOMAIN a : a[k] < b[k] /\ \A j \in 1..(k - 1) : a[j] = b[j]

\* C18: solve_ga makes exactly `generations` generations and stops: in each
\* it evaluates every chromosome, and only then selects, crosses and mutates
\* the next population; it never leaves the loop earlier, the reporter runs
\* once, after the last generation, and the run ends (every step of a run
\* moves it strictly forward, and a run that has not returned has a step to
\* take).
C18_FixedGenerationCount ==
    /\ [][/\ (pc = "gen" /\ pc' = "report") =>
                 /\ gen = generations
                 /\ Len(evals) = generations * pop_size
          /\ (pc = "gen" /\ pc' = "evaluate") =>
                 /\ gen < generations
                 /\ Len(evals) = gen * pop_size
          /\ (Len(evals') > Len(evals)) =>
                 /\ new_pop = <<>>
                 /\ Len(evals) < (gen + 1) * pop_size
          /\ (new_pop' # new_pop /\ new_pop' # <<>>) =>
                 Len(evals) = (gen + 1) * pop_size
          /\ (gen' # gen /\ runs' = runs) =>
                 /\ gen' = gen + 1
                 /\ Len(new_pop) = pop_size
                 /\ population' = new_pop
          /\ (returned' # returned /\ runs' = runs) =>
                 /\ pc = "report"
                 /\ gen = generations
                 /\ returned = NoSolution
                 /\ pc' = "done"
          /\ (runs' = runs) => LexLess(RunProgress, RunProgress')
          /\ (pc = "gen" /\ gen = generations) => pc' = "report"
         ]_vars
    /\ []((pc \notin {"idle", "done"}) => (gen <= generations /\ CanStep))

\* C18 witness: a run of two generations with two chromosomes has ended after
\* four evaluations.
C18_Witness ==
    /\ pc = "done"
    /\ generations = 2
    /\ pop_size = 2
    /\ gen = 2
    /\ Len(evals) = 4
    /\ returned # NoSolution

\* the raw demand of the first shift, per depot
RawDemand == [i \in DOMAIN depots |-> depots[i].demand]

InEvaluation == pc \in {"evaluate", "vehicle", "while", "legs", "penalty"}

\* C21: the routes, pickups and cost _evaluate_chromosome returns do not
\* depend on the chromosome: every evaluation of a run starts from the raw
\* demand, ends with the routes and the cost of the first evaluation of the
\* run, whatever chromosome it was given, and changes neither the instance
\* nor the population.
C21_EvaluationIgnoresChromosome ==
    [][/\ (pc = "evaluate" /\ pc' = "vehicle") => remaining' = RawDemand
       /\ (pc = "penalty" /\ pc' = "evaluate" /\ best_sol # NoSolution) =>
              /\ routes = best_sol.routes
              /\ evals'[Len(evals')] = best_sol.total_cost
              /\ evals'[Len(evals')] = evals'[1]
       /\ InEvaluation =>
              /\ population' = population
              /\ instVars' = instVars
      ]_vars

\* C21 witness: a chromosome that differs from the first one of its
\* population, and from every seeded one, has been evaluated into a route.
C21_Witness ==
    /\ pc = "penalty"
    /\ gen >= 1
    /\ ch_idx >= 2
    /\ population[ch_idx] # population[1]
    /\ population[ch_idx] \notin Shuffles(SeedAssignments)
    /\ routes # <<>>
    /\ best_sol # NoSolution

\* the last element of a non-empty list
LastOf(s) == s[Len(s)]

\* what one vehicle of capacity cap picks up from two depots
TwoDepotPickups(cap) ==
    LET big == IF depots[2].demand > depots[1].demand THEN 2 ELSE 1
        small == 3 - big
        first == Min(depots[big].demand, cap)
    IN  IF cap > first
        THEN <<<<depots[big].id, first>>,
               <<depots[small].id, Min(depots[small].demand, cap - first)>>>>
        ELSE <<<<depots[big].id, first>>>>

\* C22: the first depot of a route is the one with the largest remaining
\* demand when the vehicle starts, the first of them in depot order; every
\* later depot is the nearest to the depot before it among the depots with
\* remaining demand that this vehicle has not visited, the first of them in
\* depot order; a pickup is made only with seats left and takes what fits.
\* With two depots and one vehicle the route goes to the depot with the
\* larger demand first and to the other second.
C22_StartAtLargestThenNearest ==
    /\ [][(pc = "while" /\ Len(pickups') = Len(pickups) + 1) =>
            LET c == LastOf(ordered_depot_indices')
                waiting == {j \in DOMAIN depots :
                               /\ remaining[j] > 0
                               /\ j \notin SeqToSet(ordered_depot_indices)}
            IN  /\ capacity_left > 0
                /\ LastOf(pickups') =
                       <<depots[c].id, Min(remaining[c], capacity_left)>>
                /\ c \in waiting
                /\ IF pickups = <<>>
                   THEN \A j \in DOMAIN depots :
                           /\ remaining[j] <= remaining[c]
                           /\ (j < c) => remaining[j] < remaining[c]
                   ELSE LET prev == LastOf(ordered_depot_indices)
                        IN  \A j \in waiting :
                               /\ DepotDist(prev, c) <= DepotDist(prev, j)
                               /\ (j < c) =>
                                      DepotDist(prev, c) < DepotDist(prev, j)
         ]_vars
    /\ []((pc = "done" /\ Len(depots) = 2 /\ Len(BuildVehicles(owned, rented)) = 1) =>
             /\ Len(returned.routes) = 1
             /\ returned.routes[1].pickups =
                    TwoDepotPickups(BuildVehicles(owned, rented)[1].capacity))

\* C22 witness: a vehicle started at the second depot, went on to the third
\* although the first had passengers waiting and was nearer in depot order,
\* and visited the first last.
C22_Witness ==
    /\ pc = "legs"
    /\ Len(depots) = 3
    /\ ordered_depot_indices = <<2, 3, 1>>
    /\ depots[2].demand > depots[1].demand
    /\ DepotDist(2, 3) < DepotDist(2, 1)

\* C23: every route of an evaluation, and of the Solution returned, has at
\* least one pickup, every pickup and the route's passengers are at least 1,
\* and there are never more routes than vehicle units; a route is appended
\* only for a vehicle with pickups, and a vehicle that leaves the loop
\* without pickups, or that is reached when no demand is left, adds none.
C23_NoEmptyRoutes ==
    /\ [](LET Sound(rs) ==
                 /\ Len(rs) <= Len(BuildVehicles(owned, rented))
                 /\ \A k \in DOMAIN rs :
                       /\ Len(rs[k].pickups) >= 1
                       /\ \A i \in DOMAIN rs[k].pickups : rs[k].pickups[i][2] >= 1
                       /\ rs[k].passengers >= 1
          IN  /\ Sound(routes)
              /\ (best_sol # NoSolution) => Sound(best_sol.routes)
              /\ (returned # NoSolution) => Sound(returned.routes))
    /\ [][/\ (routes' # routes /\ routes' # <<>>) =>
                 /\ pc = "legs"
                 /\ pickups # <<>>
                 /\ Len(routes') = Len(routes) + 1
                 /\ routes'[Len(routes')].pickups = pickups
          /\ (pc = "while" /\ pickups' = <<>>) =>
                 (pc' = "vehicle" /\ routes' = routes)
          /\ (pc = "vehicle" /\ ~any_demand_left(remaining)) =>
                 (pc' = "penalty" /\ routes' = routes)
         ]_vars

\* C23 witness: of a fleet whose first unit has no seats, whose second unit
\* took all the demand and which has more units with seats, one route is
\* returned.
C23_Witness ==
    /\ pc = "done"
    /\ Len(BuildVehicles(owned, rented)) >= 4
    /\ BuildVehicles(owned, rented)[1].capacity = 0
    /\ BuildVehicles(owned, rented)[2].capacity = 0
    /\ BuildVehicles(owned, rented)[3].capacity >= TotalDemand
    /\ BuildVehicles(owned, rented)[4].capacity > 0
    /\ Len(returned.routes) = 1
    /\ returned.routes[1].passengers = TotalDemand

\* the smallest positive value of a dict that has one
SmallestPositive(rem) ==
    LET pos == {rem[i] : i \in {j \in DOMAIN rem : rem[j] > 0}}
    IN  CHOOSE d \in pos : \A e \in pos : d <= e

\* the specs of a list that cover a demand with the least capacity
SmallestCovering(specs, d) ==
    {specs[k] : k \in {n \in DOMAIN specs :
                          /\ specs[n].capacity >= d
                          /\ \A j \in DOMAIN specs :
                                 (specs[j].capacity >= d) =>
                                     specs[n].capacity <= specs[j].capacity}}

\* the vehicle chosen for a demand: an owned spec when one covers it, a
\* rented spec only when none does
ChosenFor(best_vehicle, d) ==
    IF SmallestCovering(owned, d) # {}
    THEN best_vehicle \in SmallestCovering(owned, d)
    ELSE IF SmallestCovering(rented, d) # {}
    THEN best_vehicle \in SmallestCovering(rented, d)
    ELSE best_vehicle = NoVehicle

\* C24: in every packing iteration the demand the vehicle is chosen for is
\* the smallest positive remaining demand, depots with nothing left being
\* ignored, and the vehicle is the smallest owned spec that covers it or,
\* when no owned spec does, the smallest rented spec that covers it.
C24_VehicleForSmallestPositiveDemand ==
    (seed_step.branch # "none") =>
        /\ seed_step.min_demand = SmallestPositive(seed_step.before)
        /\ ChosenFor(seed_step.best_vehicle,
                     SmallestPositive(seed_step.before))

\* the capacity of the largest spec of the fleet, owned and rented together
LargestCapacity ==
    LET caps == {owned[k].capacity : k \in DOMAIN owned}
                \cup {rented[k].capacity : k \in DOMAIN rented}
    IN  CHOOSE c \in caps : \A e \in caps : e <= c

\* C25: a packing iteration that finds no spec covering the selected demand
\* assigns, from a depot with remaining demand, the smaller of that demand
\* and the capacity of the largest spec of the whole fleet, and reduces the
\* depot's remaining demand by as much.
C25_LargestOfWholeFleetAbsorbs ==
    (seed_step.branch \in {"largest_owned", "largest_rented"}) =>
        \E i \in DOMAIN seed_step.before :
            /\ seed_step.before[i] > 0
            /\ seed_step.assigned =
                   <<<<i, Min(seed_step.before[i], LargestCapacity)>>>>
            /\ remaining_demand =
                   [seed_step.before EXCEPT
                       ![i] = @ - Min(seed_step.before[i], LargestCapacity)]

\* the seeding has a step to take: the tests of lines 246 and 265 go one way
\* or the other, and the shuffle of line 340 has an outcome
SeedCanStep ==
    /\ (pc = "seed_chromosome") => ENABLED seed_chromosome
    /\ (pc = "pack") => ENABLED pack_iteration
    /\ (pc = "shuffle") => Shuffles(assignments) # {}

\* C26: _seed_population terminates for every demand and fleet, an empty
\* fleet and vehicles without seats included: a chromosome takes at most
\* MAX_ITERATIONS packing iterations, an iteration is made only while some
\* depot has remaining demand, one chromosome is stored per pass, and exactly
\* pop_size chromosomes are returned (every step moves the seeding strictly
\* forward, and a seeding that has not returned has a step to take).
C26_SeedingTerminates ==
    /\ [](/\ iteration <= MAX_ITERATIONS
          /\ Len(chromos) <= pop_size
          /\ (pc = "seeded") => Len(chromos) = pop_size
          /\ SeedCanStep)
    /\ [][/\ (iteration' = iteration + 1) =>
                 (AnyValue(remaining_demand) /\ iteration < MAX_ITERATIONS)
          /\ (pc = "pack" /\ ~AnyValue(remaining_demand)) => pc' = "shuffle"
          /\ (pc = "pack" /\ pc' = "pack") =>
                 (iteration' = iteration + 1 /\ chromos' = chromos)
          /\ (pc = "shuffle") =>
                 (Len(chromos') = Len(chromos) + 1 /\ pc' = "seed_chromosome")
          /\ (pc = "seed_chromosome") =>
                 (chromos' = chromos /\ pc' \in {"pack", "seeded"})
          /\ (pc = "seeded") => UNCHANGED vars
         ]_vars

\* C26 witness: two chromosomes were returned for a fleet without seats,
\* each after MAX_ITERATIONS iterations that left the demand as it was.
C26_Witness ==
    /\ pc = "seeded"
    /\ pop_size = 2
    /\ Len(chromos) = 2
    /\ Len(chromos[1]) = MAX_ITERATIONS
    /\ iteration = MAX_ITERATIONS
    /\ AnyValue(remaining_demand)

\* the position of a report in Solution.reports is that of its route
HasViolation(report, v) == v \in SeqToSet(report.violations)

\* C27: the report of a route holds over_capacity exactly when its seats
\* minus its passengers is below 0 and exceeds_ride_time exactly when its leg
\* times sum to more than the shift's maximum ride minutes; a route that
\* visits a depot twice gives a violation on the Solution, and the reporter
\* returns.
C27_ReportViolations ==
    /\ pc # "raised"
    /\ (pc = "done") =>
          /\ Len(returned.reports) = Len(returned.routes)
          /\ \A k \in DOMAIN returned.routes :
                LET route == returned.routes[k]
                    report == returned.reports[k]
                IN  /\ HasViolation(report, "over_capacity")
                           <=> (route.seats - route.passengers < 0)
                    /\ HasViolation(report, "exceeds_ride_time")
                           <=> (TotalTime(route) > shift.max_ride_minutes)
                    /\ (\E i, j \in DOMAIN route.depot_ids :
                           i # j /\ route.depot_ids[i] = route.depot_ids[j])
                           <=> (\E n \in DOMAIN returned.violations :
                                   /\ returned.violations[n].kind = "duplicate_depot"
                                   /\ returned.violations[n].vehicle = k)

\* C27 witness: a Solution was reported whose first route is full, takes
\* exactly the maximum ride time and is clean, and whose second route is over
\* capacity, exceeds the ride time and visits a depot twice.
C27_Witness ==
    /\ pc = "done"
    /\ Len(returned.routes) = 2
    /\ returned.routes[1].seats = returned.routes[1].passengers
    /\ TotalTime(returned.routes[1]) = shift.max_ride_minutes
    /\ returned.reports[1].violations = <<>>
    /\ returned.reports[2].violations = <<"over_capacity", "exceeds_ride_time">>
    /\ returned.routes[2].depot_ids = <<1, 1>>
    /\ \E n \in DOMAIN returned.violations :
          returned.violations[n].kind = "duplicate_depot"

\* ---------------------------------------------------------------- C28
\* the complete results osrm_segment can hold for a key: the server's reply,
\* or the straight-line segment of a pair of points that round to the key
CompleteResults(key) ==
    OsrmReplies \cup {GeoSegment(pair[1], pair[2]) :
                         pair \in {q \in SegmentPairs : SegKey(q[1], q[2]) = key}}

\* the calls that are about to store under the key
Storing(key) ==
    {w \in 1..Workers : segment_calls[w].pc = "store"
                        /\ segment_calls[w].seg_key = key}

\* C28: when evaluations of one run interleave in osrm_segment, a value read
\* from the cache for a rounded pair is a complete result that was stored for
\* that same rounded pair, a store changes the entry of its own key only and
\* no entry is ever lost, and the worst that happens is that the same pair is
\* looked up externally more than once (at most once by each worker).
C28_CacheRaceBenign ==
    /\ [](\A w \in 1..Workers :
              (segment_calls[w].source = "cache")
                  => /\ <<segment_calls[w].seg_key, segment_calls[w].result>>
                           \in written
                     /\ segment_calls[w].result
                           \in CompleteResults(segment_calls[w].seg_key))
    /\ [](\A key \in DOMAIN osrm_cache :
              /\ <<key, osrm_cache[key]>> \in written
              /\ osrm_cache[key] \in CompleteResults(key))
    /\ []((pc = "racing") =>
              \A key \in DOMAIN osrm_calls : osrm_calls[key] <= Workers)
    /\ [][(pc = "racing") =>
              \A key \in DOMAIN osrm_cache :
                  /\ key \in DOMAIN osrm_cache'
                  /\ (osrm_cache'[key] # osrm_cache[key]) => Storing(key) # {}]_vars

\* two workers both looked the same pair up externally, both stored it, and
\* a later call read the entry from the cache while another key is stored too
C28_Witness ==
    /\ pc = "racing"
    /\ \E key \in DOMAIN osrm_calls :
          /\ osrm_calls[key] = 2
          /\ Cardinality({v \in written : v[1] = key}) = 2
          /\ \E w \in 1..Workers :
                /\ segment_calls[w].source = "cache"
                /\ segment_calls[w].seg_key = key
                /\ segment_calls[w].pc = "out"
    /\ Cardinality(DOMAIN osrm_cache) = 2

\* ---------------------------------------------------------------- C29
\* C29: a job that stop_optimization has set to "stopped" is never changed to
\* "completed" by its background task, and a job that has reached "completed"
\* or "failed" is not turned into "stopped" by a later stop request.
C29_StoppedIsFinal ==
    [][\A id \in DOMAIN active_optimizations :
          /\ (active_optimizations[id].status = "stopped")
                 => (active_optimizations'[id].status # "completed")
          /\ (active_optimizations[id].status \in {"completed", "failed"})
                 => (active_optimizations'[id].status # "stopped")]_vars

\* ---------------------------------------------------------------- C30
\* every pair of the chromosome names a depot with demand and carries between
\* one passenger and that depot's demand
PairsLegal(ch) ==
    \A idx \in DOMAIN ch :
        /\ ch[idx][1] \in DOMAIN depots
        /\ depots[ch[idx][1]].demand > 0
        /\ 1 <= ch[idx][2]
        /\ ch[idx][2] <= depots[ch[idx][1]].demand

\* the passengers the chromosome assigns to depot i
DepotSum(ch, i) ==
    SumSeq([idx \in DOMAIN ch |-> IF ch[idx][1] = i THEN ch[idx][2] ELSE 0])

\* the packing loop of line 265 ended before iteration reached 100
PackedBeforeCap == Pack(SeedDemand, <<>>, 0).iterations < MAX_ITERATIONS

\* the pairs of every chromosome of the population and of the children made
\* so far are legal, and a seeded chromosome never assigns more than a depot's
\* demand
ChromosomesLegal ==
    /\ \A c \in DOMAIN population : PairsLegal(population[c])
    /\ \A c \in DOMAIN new_pop : PairsLegal(new_pop[c])
    /\ (gen = 0) =>
           \A c \in DOMAIN population : \A i \in DOMAIN depots :
               DepotSum(population[c], i) <= depots[i].demand

====
